---- MODULE Spec2Model ----
(***************************************************************************)
(* Power Management Board firmware: the battery state machine, the task    *)
(* loops of the BMS, Telemetry and Flight tasks, and the routing of the    *)
(* PMB protocol task.                                                      *)
(***************************************************************************)
EXTENDS Integers, Sequences, FiniteSets, TLC

(* ----------------------------------------------------------------------- *)
(* Constants                                                               *)
(* ----------------------------------------------------------------------- *)

\* enum BatteryState
BS_IDLE == 0
BS_CHARGING == 1
BS_DISCHARGING == 2
BS_FAULT == 3
BS_NONE == 4

\* a null pointer
NULL == -1

\* how far beyond BS_NONE the BatteryState arguments of the model range
MaxStateArg == 5

\* the slots of stateArray
Slots == 0 .. (BS_NONE - 1)

\* the values a BatteryState argument takes in the model
StateArgs == 0 .. MaxStateArg

\* GLOBAL_COMMANDS, the kind of a Command
REQUEST_COMMAND == "REQUEST_COMMAND"
DATA_COMMAND == "DATA_COMMAND"
TASK_SPECIFIC_COMMAND == "TASK_SPECIFIC_COMMAND"
CONTROL_ACTION == "CONTROL_ACTION"
HEARTBEAT_COMMAND == "HEARTBEAT_COMMAND"
TELEMETRY_CHANGE_PERIOD == "TELEMETRY_CHANGE_PERIOD"

\* sub-commands of a DATA_COMMAND to the battery state machine
BMS_UPDATE == 1
CHARGER_UPDATE == 2
FUEL_GAUGE_UPDATE == 3

\* a sub-command value no switch of the sources names
UNKNOWN_TASK_COMMAND == 99

\* Command(kind, taskCommand): the task command is a uint16_t
Command(kind, taskCommand) == [cmd |-> kind, tc |-> taskCommand % 65536]

(* ----------------------------------------------------------------------- *)
(* State                                                                   *)
(* ----------------------------------------------------------------------- *)

\* the tasks whose run loop is in the sources
Tasks == {"BMS", "Telemetry", "Flight"}

\* The threads share no memory but the queues, so a behaviour follows one
\* part of the system and meets the rest through what it puts into the
\* queue of that part: the state machine, one of the task loops, the
\* protocol task, or the creation of the threads.
Scenes == {"sm"} \cup Tasks \cup {"Protocol", "init", "Debug"}

\* the tasks with an InitTask in the sources
AllTasks == Tasks \cup {"Debug", "Protocol"}

VARIABLES
    smPhase,          \* "unbuilt", "running", "asserted" (SOAR_ASSERT failed), "crashed"
    stateArray,       \* BatterySM::stateArray: slot -> id of the state object in it, or NULL
    bs_currentState,  \* BatterySM::bs_currentState: the slot it points to, or NULL
    hookLog,          \* the calls made on state objects by the last operation, in order
    smIndexed,        \* the indices the last operation used on stateArray, in order
    smRet,            \* the value the last TransitionState returned
    smOp              \* the last operation on the machine and its arguments

VARIABLES
    focus,            \* the part of the system the behaviour follows
    system,           \* "running", "asserted" (a SOAR_ASSERT failed) or "faulted"
    queue,            \* Task::qEvtQueue of each task
    pc,               \* where the Run of each task is
    cm,               \* the Command cm local to the loop of each task
    cmResets,         \* the Reset() calls made on cm since it was received
    branch            \* the branch HandleCommand took for the last command

VARIABLES
    rsm_,             \* FlightTask::rsm_: the state of the rocket state machine, or NULL
    flightStart,      \* what FlightTask::Run read and what it built the machine with
    firstStateSent_,  \* FlightTask::firstStateSent_
    flightLog,        \* what the last FlightTask::HandleCommand did, in order
    stateCalls        \* the SendRocketState calls made so far, counted up to MaxStateCalls

VARIABLES
    loggingDelayMs,      \* TelemetryTask::loggingDelayMs
    numNonControlLogs_,  \* TelemetryTask::numNonControlLogs_
    teleLog,             \* what the last RunLogSequence sent, in order
    sinceHeartbeat       \* the osDelay time since the last HB_STATUS_SEND, NULL before the first;
                         \* kept where the producer changes the period

VARIABLES
    gwEnv,            \* the last envelope the protocol task decoded
    gwLog             \* what the handler of that envelope sent, in order

VARIABLES
    rtTaskHandle,     \* Task::rtTaskHandle of each task: NULL or the handle of its thread
    threads,          \* the threads xTaskCreate made for each task
    initOp            \* the last InitTask call and what it found

VARIABLES
    producer,         \* what fills the queue: "commands" of the task, or "numbered" ones
    nextSeq,          \* the number the next accepted command of a numbered producer gets
    lastSend          \* the last send of a numbered producer and its result

VARIABLES
    debugBuffer,      \* DebugTask::debugBuffer: index -> byte
    debugMsgIdx,      \* DebugTask::debugMsgIdx
    isDebugMsgReady,  \* DebugTask::isDebugMsgReady
    rxArmed,          \* the receive interrupt of the debug UART is armed
    rxOp,             \* the last InterruptRxData call: what became of the byte, the index
                      \* written, and the bytes taken for the message so far
    debugMsg          \* the text the last HandleDebugMessage read

smVars == <<smPhase, stateArray, bs_currentState, hookLog, smIndexed, smRet, smOp>>
taskVars == <<focus, system, queue, pc, cm, cmResets, branch>>
flightVars == <<rsm_, flightStart, firstStateSent_, flightLog, stateCalls>>
teleVars == <<loggingDelayMs, numNonControlLogs_, teleLog, sinceHeartbeat>>
gwVars == <<gwEnv, gwLog>>

initVars == <<rtTaskHandle, threads, initOp>>
prodVars == <<producer, nextSeq, lastSend>>
debugVars == <<debugBuffer, debugMsgIdx, isDebugMsgReady, rxArmed, rxOp, debugMsg>>

vars == <<smVars, taskVars, flightVars, teleVars, gwVars, initVars, prodVars, debugVars>>

(* ----------------------------------------------------------------------- *)
(* Battery state machine: BatterySM.cpp                                    *)
(* ----------------------------------------------------------------------- *)

\* Idle::Idle, Charging::Charging, Discharging::Discharging, Fault::Fault
Idle_ctor == BS_IDLE
Charging_ctor == BS_CHARGING
Discharging_ctor == BS_DISCHARGING
Fault_ctor == BS_FAULT

\* the table the constructor builds, in the order of the enum
BuildStateArray ==
    [i \in Slots |->
        CASE i = BS_IDLE -> Idle_ctor
          [] i = BS_CHARGING -> Charging_ctor
          [] i = BS_DISCHARGING -> Discharging_ctor
          [] OTHER -> Fault_ctor]

\* the tables a machine may be built on when the table is deliberately
\* wrong: a slot holds a null pointer or a state object of any id
CandidateTables == [Slots -> {NULL} \cup (0 .. BS_NONE)]

\* the verification loop of the constructor: both assertions, for every slot
VerifyStateArrayNullOnly(table) ==
    \A i \in Slots : table[i] # NULL

VerifyStateArray(table) ==
    \A i \in Slots : table[i] # NULL /\ table[i] = i

\* BaseBatteryState::GetStateID through the pointer p
GetStateID(table, p) == table[p]

\* one call on a state object: the method and the id of the object
Hook(method, id) == [call |-> method, id |-> id]

\* what a failed SOAR_ASSERT leaves: soar_assert_debug does not return
soar_assert_debug == "asserted"

\* the state of the machine an operation works on and its outcome; ok is
\* FALSE when an assertion of the operation failed
SM(cur, log, indexed, ret, ok) ==
    [cur |-> cur, log |-> log, indexed |-> indexed, ret |-> ret, ok |-> ok]

\* the pointer stored in a slot: the object lives in the slot it was put in
SlotPointer(table, i) == IF table[i] = NULL THEN NULL ELSE i

\* the tail of TransitionState: exit, swap, assert, enter
ExitSwapEnter(table, cur, nextState) ==
    LET exited == <<Hook("OnExit", GetStateID(table, cur))>>
        swapped == SlotPointer(table, nextState)
    IN  IF swapped = NULL
        THEN SM(swapped, exited, <<nextState>>, BS_NONE, FALSE)
        ELSE SM(swapped,
                Append(exited, Hook("OnEnter", GetStateID(table, swapped))),
                <<nextState>>, GetStateID(table, swapped), TRUE)

\* mutation: the pointer is swapped before the exit hook is called
TransitionStateSwapFirst(table, cur, nextState) ==
    IF nextState = GetStateID(table, cur)
    THEN SM(cur, <<>>, <<>>, GetStateID(table, cur), TRUE)
    ELSE IF nextState >= BS_NONE
    THEN SM(cur, <<>>, <<>>, GetStateID(table, cur), TRUE)
    ELSE LET swapped == SlotPointer(table, nextState)
         IN  SM(swapped,
                <<Hook("OnExit", GetStateID(table, swapped)),
                  Hook("OnEnter", GetStateID(table, swapped))>>,
                <<nextState>>, GetStateID(table, swapped), TRUE)

\* mutation: the check for the state the machine is already in is missing
TransitionStateNoSelfCheck(table, cur, nextState) ==
    IF nextState >= BS_NONE
    THEN SM(cur, <<>>, <<>>, GetStateID(table, cur), TRUE)
    ELSE ExitSwapEnter(table, cur, nextState)

\* mutation: the range check lets BS_NONE through
TransitionStateOffByOne(table, cur, nextState) ==
    IF nextState = GetStateID(table, cur)
    THEN SM(cur, <<>>, <<>>, GetStateID(table, cur), TRUE)
    ELSE IF nextState > BS_NONE
    THEN SM(cur, <<>>, <<>>, GetStateID(table, cur), TRUE)
    ELSE IF nextState = BS_NONE
    THEN SM(NULL, <<Hook("OnExit", GetStateID(table, cur))>>, <<nextState>>,
            BS_NONE, FALSE)
    ELSE ExitSwapEnter(table, cur, nextState)

\* BatterySM::TransitionState
TransitionState(table, cur, nextState) ==
    IF nextState = GetStateID(table, cur)
    THEN SM(cur, <<>>, <<>>, GetStateID(table, cur), TRUE)
    ELSE IF nextState >= BS_NONE
    THEN SM(cur, <<>>, <<>>, GetStateID(table, cur), TRUE)
    ELSE ExitSwapEnter(table, cur, nextState)

\* the data handlers of the four states: each body is "return currentState"
\* for an identifier currentState that no source of the repository declares
HandleBMSData(self, currentState) == currentState
HandleChargerData(self, currentState) == currentState
HandleFuelGaugeData(self, currentState) == currentState

\* a record of the last operation on the machine
Op(name, arg, pre, c, nextState, enter) ==
    [op |-> name, arg |-> arg, pre |-> pre, cm |-> c,
     nextState |-> nextState, enter |-> enter]

NoCommand == Command("NONE", 0)

\* the commands handed to BatterySM::HandleCommand in the model
SMCommands ==
    { Command(DATA_COMMAND, t) :
        t \in {BMS_UPDATE, CHARGER_UPDATE, FUEL_GAUGE_UPDATE, UNKNOWN_TASK_COMMAND} }
    \cup { Command(REQUEST_COMMAND, BMS_UPDATE), Command(CONTROL_ACTION, 0) }

SMInit ==
    /\ smPhase = "unbuilt"
    /\ stateArray = [i \in Slots |-> NULL]
    /\ bs_currentState = NULL
    /\ hookLog = <<>>
    /\ smIndexed = <<>>
    /\ smRet = BS_NONE
    /\ smOp = Op("none", 0, NULL, NoCommand, BS_NONE, FALSE)

\* mutation: the constructor enters the starting state whatever it is told
BatterySM_ctorAlwaysEnters(table, startingState, enterStartingState) ==
    /\ smPhase = "unbuilt"
    /\ UNCHANGED <<taskVars, flightVars, teleVars, gwVars, initVars, prodVars, debugVars>>
    /\ stateArray' = table
    /\ smOp' = Op("ctor", startingState, NULL, NoCommand, BS_NONE, enterStartingState)
    /\ smRet' = smRet
    /\ IF ~VerifyStateArray(table)
       THEN /\ smPhase' = soar_assert_debug
            /\ bs_currentState' = NULL
            /\ hookLog' = <<>>
            /\ smIndexed' = <<>>
       ELSE /\ smIndexed' = <<startingState>>
            /\ IF startingState \in Slots
               THEN /\ bs_currentState' = SlotPointer(table, startingState)
                    /\ smPhase' = "running"
               ELSE \/ /\ bs_currentState' = NULL
                       /\ smPhase' = "crashed"
                    \/ /\ bs_currentState' \in Slots
                       /\ smPhase' = "running"
            /\ hookLog' = IF smPhase' = "running"
                          THEN <<Hook("OnEnter", GetStateID(table, bs_currentState'))>>
                          ELSE <<>>

\* BatterySM::BatterySM on the table of state objects it has built. Indexing
\* stateArray beyond its end is undefined: the pointer read there is garbage,
\* and the calls made through it either crash or land on some state object.
BatterySM_ctor(table, startingState, enterStartingState) ==
    /\ smPhase = "unbuilt"
    /\ UNCHANGED <<taskVars, flightVars, teleVars, gwVars, initVars, prodVars, debugVars>>
    /\ stateArray' = table
    /\ smOp' = Op("ctor", startingState, NULL, NoCommand, BS_NONE, enterStartingState)
    /\ smRet' = smRet
    /\ IF ~VerifyStateArray(table)
       THEN /\ smPhase' = soar_assert_debug
            /\ bs_currentState' = NULL
            /\ hookLog' = <<>>
            /\ smIndexed' = <<>>
       ELSE /\ smIndexed' = <<startingState>>
            /\ IF startingState \in Slots
               THEN /\ bs_currentState' = SlotPointer(table, startingState)
                    /\ smPhase' = "running"
               ELSE \/ /\ bs_currentState' = NULL
                       /\ smPhase' = "crashed"
                    \/ /\ bs_currentState' \in Slots
                       /\ smPhase' = "running"
            /\ hookLog' = IF enterStartingState /\ smPhase' = "running"
                          THEN <<Hook("OnEnter", GetStateID(table, bs_currentState'))>>
                          ELSE <<>>

\* a call of BatterySM::TransitionState
SM_TransitionState(nextState) ==
    /\ focus = "sm"
    /\ smPhase = "running"
    /\ LET r == TransitionState(stateArray, bs_currentState, nextState)
       IN  /\ bs_currentState' = r.cur
           /\ hookLog' = r.log
           /\ smIndexed' = r.indexed
           /\ smRet' = r.ret
           /\ smPhase' = IF r.ok THEN "running" ELSE soar_assert_debug
    /\ smOp' = Op("TransitionState", nextState, bs_currentState, NoCommand, BS_NONE, FALSE)
    /\ UNCHANGED stateArray
    /\ UNCHANGED <<taskVars, flightVars, teleVars, gwVars, initVars, prodVars, debugVars>>

\* the data handler BatterySM::HandleCommand calls for a command, "none" if none
DataHandler(c) ==
    IF c.cmd # DATA_COMMAND THEN "none"
    ELSE CASE c.tc = BMS_UPDATE -> "HandleBMSData"
           [] c.tc = CHARGER_UPDATE -> "HandleChargerData"
           [] c.tc = FUEL_GAUGE_UPDATE -> "HandleFuelGaugeData"
           [] OTHER -> "none"

\* the value of the local nextState at the end of BatterySM::HandleCommand
HandleCommandNextState(table, cur, c, currentState) ==
    CASE DataHandler(c) = "HandleBMSData" -> HandleBMSData(cur, currentState)
      [] DataHandler(c) = "HandleChargerData" -> HandleChargerData(cur, currentState)
      [] DataHandler(c) = "HandleFuelGaugeData" -> HandleFuelGaugeData(cur, currentState)
      [] OTHER -> GetStateID(table, cur)

\* BatterySM::HandleCommand: the handler is called on the current state and
\* its result is stored in the local nextState, which nothing reads
SM_HandleCommand(c, currentState) ==
    /\ focus = "sm"
    /\ smPhase = "running"
    /\ bs_currentState # NULL
    /\ hookLog' = IF DataHandler(c) = "none" THEN <<>>
                  ELSE <<Hook(DataHandler(c), GetStateID(stateArray, bs_currentState))>>
    /\ smOp' = Op("HandleCommand", 0, bs_currentState, c,
                  HandleCommandNextState(stateArray, bs_currentState, c, currentState),
                  FALSE)
    /\ smIndexed' = <<>>
    /\ UNCHANGED <<smPhase, stateArray, bs_currentState, smRet>>
    /\ UNCHANGED <<taskVars, flightVars, teleVars, gwVars, initVars, prodVars, debugVars>>

\* the construction of the machine on one of the given tables
Construct(tables) ==
    /\ focus = "sm"
    /\ smPhase = "unbuilt"
    /\ \E t \in tables, s \in StateArgs, e \in BOOLEAN : BatterySM_ctor(t, s, e)

(* ----------------------------------------------------------------------- *)
(* Tasks: the command queues and the run loops                             *)
(* ----------------------------------------------------------------------- *)

\* the most commands the rest of the system leaves pending in a queue
MaxPending == 2

\* queue depths
FLIGHT_TASK_QUEUE_DEPTH_OBJS == 10
TELEMETRY_TASK_QUEUE_DEPTH_OBJS == 10
TASK_BMS_QUEUE_DEPTH_OBJS == 10
TASK_DEBUG_QUEUE_DEPTH_OBJS == 10

QueueDepth(t) ==
    CASE t = "Flight" -> FLIGHT_TASK_QUEUE_DEPTH_OBJS
      [] t = "Telemetry" -> TELEMETRY_TASK_QUEUE_DEPTH_OBJS
      [] t = "Debug" -> TASK_DEBUG_QUEUE_DEPTH_OBJS
      [] OTHER -> TASK_BMS_QUEUE_DEPTH_OBJS

\* mutation: the command is queued whatever the queue holds
SendCommandUnbounded(q, to, c) ==
    IF to = focus /\ to \in DOMAIN q
    THEN [q EXCEPT ![to] = Append(@, c)]
    ELSE q

\* Task::SendCommand: the command is queued unless the queue is full. The
\* queues of the tasks the behaviour does not follow are not kept.
SendCommand(q, to, c) ==
    IF to = focus /\ to \in DOMAIN q /\ Len(q[to]) < QueueDepth(to)
    THEN [q EXCEPT ![to] = Append(@, c)]
    ELSE q

\* nodes of the network; NODE_UNSET is a node field nothing has set
NODE_RCU == "NODE_RCU"
NODE_PMB == "NODE_PMB"
NODE_DMB == "NODE_DMB"
NODE_UNSET == "NODE_UNSET"

\* an outbound envelope as it is handed to SendProtobufMessage
Envelope(cat, source, target, kind, sys_state, rocket_state, ack_source, ack_seq) ==
    [cat |-> cat, source |-> source, target |-> target, kind |-> kind,
     sys_state |-> sys_state, rocket_state |-> rocket_state,
     ack_source |-> ack_source, ack_seq |-> ack_seq]

NoEnvelope == Envelope("none", NODE_UNSET, NODE_UNSET, "none", "none", NULL, NODE_UNSET, 0)

\* one thing a handler did: a command sent to a task, an envelope handed to
\* the SendProtobufMessage of a protocol task class, or a call on rsm_
Ev(kind, to, c, env) == [kind |-> kind, to |-> to, c |-> c, env |-> env]
Sent(to, c) == Ev("cmd", to, c, NoEnvelope)
Out(via, env) == Ev("out", via, NoCommand, env)
Call(on, c) == Ev("call", on, c, NoEnvelope)

\* the outcome of a HandleCommand: the branch taken and the Reset() calls
Handled(b, resets) == [branch |-> b, resets |-> resets]

\* mutation: the command received is the newest of the queue
ReceiveNewest(t) ==
    /\ cm' = [cm EXCEPT ![t] = queue[t][Len(queue[t])]]
    /\ queue' = [queue EXCEPT ![t] = SubSeq(@, 1, Len(@) - 1)]
    /\ cmResets' = [cmResets EXCEPT ![t] = 0]
    /\ branch' = [branch EXCEPT ![t] = "none"]
    /\ pc' = [pc EXCEPT ![t] = "handle"]
    /\ UNCHANGED <<focus, system>>

\* mutation: the loop receives again before it has handled the command
ReceiveBeforeHandled(t) ==
    /\ cm' = [cm EXCEPT ![t] = Head(queue[t])]
    /\ queue' = [queue EXCEPT ![t] = Tail(@)]
    /\ cmResets' = [cmResets EXCEPT ![t] = 0]
    /\ branch' = [branch EXCEPT ![t] = "none"]
    /\ pc' = pc
    /\ UNCHANGED <<focus, system>>

\* Run of a task receives a command: cm is the head of the queue
Receive(t) ==
    /\ cm' = [cm EXCEPT ![t] = Head(queue[t])]
    /\ queue' = [queue EXCEPT ![t] = Tail(@)]
    /\ cmResets' = [cmResets EXCEPT ![t] = 0]
    /\ branch' = [branch EXCEPT ![t] = "none"]
    /\ pc' = [pc EXCEPT ![t] = "handle"]
    /\ UNCHANGED <<focus, system>>

\* another task sends a command to the task the behaviour follows
EnvSend(t, c) ==
    /\ focus = t /\ system = "running"
    /\ producer = "commands"
    /\ Len(queue[t]) < MaxPending
    /\ queue' = SendCommand(queue, t, c)
    /\ UNCHANGED <<focus, system, pc, cm, cmResets, branch>>
    /\ UNCHANGED <<smVars, flightVars, teleVars, gwVars, initVars, prodVars, debugVars>>

(* ------------------------------ BMS task ------------------------------- *)

\* sub-commands of a REQUEST_COMMAND in HandleRequestCommand
THERMOCOUPLE_REQUEST_NEW_SAMPLE == 1
THERMOCOUPLE_REQUEST_TRANSMIT == 2
THERMOCOUPLE_REQUEST_DEBUG == 3

\* HandleRequestCommand
HandleRequestCommand(taskCommand) ==
    CASE taskCommand = THERMOCOUPLE_REQUEST_NEW_SAMPLE -> "request:sample"
      [] taskCommand = THERMOCOUPLE_REQUEST_TRANSMIT -> "request:transmit"
      [] taskCommand = THERMOCOUPLE_REQUEST_DEBUG -> "request:debug"
      [] OTHER -> "request:unsupported"

\* mutation: Reset() is called in the recognised cases only
BMS_HandleCommandResetInCases(c) ==
    CASE c.cmd = REQUEST_COMMAND -> Handled(HandleRequestCommand(c.tc), 1)
      [] c.cmd = TASK_SPECIFIC_COMMAND -> Handled("task_specific", 1)
      [] OTHER -> Handled("unsupported", 0)

\* BMSTask::HandleCommand: the switch, then cm.Reset()
BMS_HandleCommand(c) ==
    LET b == CASE c.cmd = REQUEST_COMMAND -> HandleRequestCommand(c.tc)
               [] c.cmd = TASK_SPECIFIC_COMMAND -> "task_specific"
               [] OTHER -> "unsupported"
    IN  Handled(b, 1)

\* the commands the rest of the system sends to the BMS task
BMSCommands ==
    { Command(REQUEST_COMMAND, THERMOCOUPLE_REQUEST_NEW_SAMPLE),
      Command(REQUEST_COMMAND, UNKNOWN_TASK_COMMAND),
      Command(TASK_SPECIFIC_COMMAND, 0),
      Command(DATA_COMMAND, BMS_UPDATE) }

\* BMSTask::Run, ReceiveWait: blocks until a command is in the queue
BMS_Receive ==
    /\ focus = "BMS" /\ system = "running"
    /\ pc["BMS"] = "receive"
    /\ queue["BMS"] # <<>>
    /\ Receive("BMS")
    /\ UNCHANGED <<smVars, flightVars, teleVars, gwVars, initVars, prodVars, debugVars>>

\* BMSTask::Run, HandleCommand(cm)
BMS_Handle ==
    /\ focus = "BMS" /\ system = "running"
    /\ pc["BMS"] = "handle"
    /\ LET h == BMS_HandleCommand(cm["BMS"])
       IN  /\ branch' = [branch EXCEPT !["BMS"] = h.branch]
           /\ cmResets' = [cmResets EXCEPT !["BMS"] = @ + h.resets]
    /\ pc' = [pc EXCEPT !["BMS"] = "receive"]
    /\ UNCHANGED <<focus, system, queue, cm>>
    /\ UNCHANGED <<smVars, flightVars, teleVars, gwVars, initVars, prodVars, debugVars>>

(* --------------------------- Telemetry task ---------------------------- *)

TELEMETRY_DEFAULT_LOGGING_RATE_MS == 100
TELEMETRY_HEARTBEAT_TIMER_PERIOD_MS == 2000

\* sub-commands of the requests RunLogSequence sends
FT_REQUEST_TRANSMIT_STATE == 1
HB_STATUS_SEND == 2
BATTERY_REQUEST_NEW_SAMPLE == 3
BARO_REQUEST_NEW_SAMPLE == 4
IMU_REQUEST_NEW_SAMPLE == 5
BATTERY_REQUEST_TRANSMIT == 6
BARO_REQUEST_TRANSMIT == 7
IMU_REQUEST_TRANSMIT == 8
GPS_REQUEST_TRANSMIT == 9

\* TelemetryTask::HandleCommand: the switch, then cm.Reset()
Telemetry_HandleCommand(c, delay) ==
    LET r == IF c.cmd = TELEMETRY_CHANGE_PERIOD
             THEN [branch |-> "change_period", loggingDelayMs |-> c.tc % 65536]
             ELSE [branch |-> "unsupported", loggingDelayMs |-> delay]
    IN  [branch |-> r.branch, resets |-> 1, loggingDelayMs |-> r.loggingDelayMs]

\* TelemetryTask::SendVentDrainStatus
SendVentDrainStatus ==
    Out("DMBProtocolTask",
        Envelope("telemetry", NODE_DMB, NODE_RCU, "combustionControlStatus",
                 "none", NULL, NODE_UNSET, 0))

\* TelemetryTask::RequestSample
RequestSample ==
    << Sent("Battery", Command(REQUEST_COMMAND, BATTERY_REQUEST_NEW_SAMPLE)),
       Sent("Barometer", Command(REQUEST_COMMAND, BARO_REQUEST_NEW_SAMPLE)),
       Sent("IMU", Command(REQUEST_COMMAND, IMU_REQUEST_NEW_SAMPLE)) >>

\* TelemetryTask::RequestTransmit
RequestTransmit ==
    << Sent("Battery", Command(REQUEST_COMMAND, BATTERY_REQUEST_TRANSMIT)),
       Sent("Barometer", Command(REQUEST_COMMAND, BARO_REQUEST_TRANSMIT)),
       Sent("IMU", Command(REQUEST_COMMAND, IMU_REQUEST_TRANSMIT)),
       Sent("GPS", Command(REQUEST_COMMAND, GPS_REQUEST_TRANSMIT)) >>

\* mutation: the transmit requests go out before the sample requests
RunLogSequenceTransmitFirst(n, quotient) ==
    LET heartbeat == (n + 1) >= quotient
    IN  [numNonControlLogs_ |-> IF heartbeat THEN 0 ELSE n + 1,
         heartbeat |-> heartbeat,
         log |-> << Sent("Flight", Command(REQUEST_COMMAND, FT_REQUEST_TRANSMIT_STATE)) >>
                 \o (IF heartbeat
                     THEN << Sent("Watchdog", Command(TASK_SPECIFIC_COMMAND, HB_STATUS_SEND)) >>
                     ELSE << >>)
                 \o << SendVentDrainStatus >>
                 \o RequestTransmit
                 \o RequestSample]

\* TelemetryTask::RunLogSequence once the quotient
\* TELEMETRY_HEARTBEAT_TIMER_PERIOD_MS / loggingDelayMs is known
RunLogSequence(n, quotient) ==
    LET heartbeat == (n + 1) >= quotient
    IN  [numNonControlLogs_ |-> IF heartbeat THEN 0 ELSE n + 1,
         heartbeat |-> heartbeat,
         log |-> << Sent("Flight", Command(REQUEST_COMMAND, FT_REQUEST_TRANSMIT_STATE)) >>
                 \o (IF heartbeat
                     THEN << Sent("Watchdog", Command(TASK_SPECIFIC_COMMAND, HB_STATUS_SEND)) >>
                     ELSE << >>)
                 \o << SendVentDrainStatus >>
                 \o RequestSample
                 \o RequestTransmit]

\* the largest quotient the model takes for a division by zero
MaxQuotient == 20

TELEMETRY_MINIMUM_LOG_PERIOD_MS == 20

\* the cmd_param values of a system-control message in the model
Params == {0, 1000, 65535, 65536, 100000}

\* the period HandleProtobufControlMesssage forwards for SYS_LOG_PERIOD_CHANGE
ClampPeriod(paramMs) == IF paramMs > 65535 THEN 65534 ELSE paramMs

\* the periods a TELEMETRY_CHANGE_PERIOD command carries: what the protocol
\* task forwards, in the 16 bits of the Command's taskCommand
Periods == { ClampPeriod(p) % 65536 : p \in Params }

\* the commands the rest of the system sends to the Telemetry task
TelemetryCommands ==
    { Command(TELEMETRY_CHANGE_PERIOD, p) : p \in Periods }
    \cup { Command(REQUEST_COMMAND, UNKNOWN_TASK_COMMAND) }

\* TelemetryTask::Run, Receive: a command is in the queue
Telemetry_Receive ==
    /\ focus = "Telemetry" /\ system = "running"
    /\ pc["Telemetry"] = "receive"
    /\ queue["Telemetry"] # <<>>
    /\ Receive("Telemetry")
    /\ UNCHANGED <<smVars, flightVars, teleVars, gwVars, initVars, prodVars, debugVars>>

\* TelemetryTask::Run, Receive: the queue is empty, the loop goes on to osDelay
Telemetry_ReceiveEmpty ==
    /\ focus = "Telemetry" /\ system = "running"
    /\ pc["Telemetry"] = "receive"
    /\ queue["Telemetry"] = <<>>
    /\ pc' = [pc EXCEPT !["Telemetry"] = "delay"]
    /\ UNCHANGED <<focus, system, queue, cm, cmResets, branch>>
    /\ UNCHANGED <<smVars, flightVars, teleVars, gwVars, initVars, prodVars, debugVars>>

\* mutation: the loop goes on to osDelay after one command
Telemetry_HandleOnce ==
    /\ focus = "Telemetry" /\ system = "running"
    /\ pc["Telemetry"] = "handle"
    /\ LET h == Telemetry_HandleCommand(cm["Telemetry"], loggingDelayMs)
       IN  /\ branch' = [branch EXCEPT !["Telemetry"] = h.branch]
           /\ cmResets' = [cmResets EXCEPT !["Telemetry"] = @ + h.resets]
           /\ loggingDelayMs' = h.loggingDelayMs
    /\ pc' = [pc EXCEPT !["Telemetry"] = "delay"]
    /\ UNCHANGED <<focus, system, queue, cm, numNonControlLogs_, teleLog, sinceHeartbeat>>
    /\ UNCHANGED <<smVars, flightVars, gwVars, initVars, prodVars, debugVars>>

\* TelemetryTask::Run, HandleCommand(cm)
Telemetry_Handle ==
    /\ focus = "Telemetry" /\ system = "running"
    /\ pc["Telemetry"] = "handle"
    /\ LET h == Telemetry_HandleCommand(cm["Telemetry"], loggingDelayMs)
       IN  /\ branch' = [branch EXCEPT !["Telemetry"] = h.branch]
           /\ cmResets' = [cmResets EXCEPT !["Telemetry"] = @ + h.resets]
           /\ loggingDelayMs' = h.loggingDelayMs
    /\ pc' = [pc EXCEPT !["Telemetry"] = "receive"]
    /\ UNCHANGED <<focus, system, queue, cm, numNonControlLogs_, teleLog, sinceHeartbeat>>
    /\ UNCHANGED <<smVars, flightVars, gwVars, initVars, prodVars, debugVars>>

\* the osDelay time since the last HB_STATUS_SEND after one more cycle,
\* counted up to TELEMETRY_HEARTBEAT_TIMER_PERIOD_MS
Elapsed(since, delay, heartbeat) ==
    IF heartbeat THEN 0
    ELSE IF since = NULL THEN NULL
    ELSE IF since + delay > TELEMETRY_HEARTBEAT_TIMER_PERIOD_MS
    THEN TELEMETRY_HEARTBEAT_TIMER_PERIOD_MS
    ELSE since + delay

\* TelemetryTask::Run, osDelay(loggingDelayMs) and RunLogSequence(). With
\* loggingDelayMs = 0 the division is undefined: the task faults after the
\* request to the Flight task, or goes on with some quotient.
Telemetry_RunLogSequence ==
    /\ focus = "Telemetry" /\ system = "running"
    /\ pc["Telemetry"] = "delay"
    /\ \/ /\ loggingDelayMs # 0
          /\ LET r == RunLogSequence(numNonControlLogs_,
                                     TELEMETRY_HEARTBEAT_TIMER_PERIOD_MS \div loggingDelayMs)
             IN  /\ numNonControlLogs_' = r.numNonControlLogs_
                 /\ teleLog' = r.log
                 /\ sinceHeartbeat' = IF producer = "periods"
                                      THEN Elapsed(sinceHeartbeat, loggingDelayMs, r.heartbeat)
                                      ELSE sinceHeartbeat
          /\ pc' = [pc EXCEPT !["Telemetry"] = "receive"]
          /\ UNCHANGED system
       \/ /\ loggingDelayMs = 0
          /\ \E quotient \in {0, MaxQuotient} :
                LET r == RunLogSequence(numNonControlLogs_, quotient)
                IN  /\ numNonControlLogs_' = r.numNonControlLogs_
                    /\ teleLog' = r.log
                    /\ sinceHeartbeat' = IF producer = "periods"
                                         THEN Elapsed(sinceHeartbeat, loggingDelayMs, r.heartbeat)
                                         ELSE sinceHeartbeat
          /\ pc' = [pc EXCEPT !["Telemetry"] = "receive"]
          /\ UNCHANGED system
       \/ /\ loggingDelayMs = 0
          /\ teleLog' = << Sent("Flight", Command(REQUEST_COMMAND, FT_REQUEST_TRANSMIT_STATE)) >>
          /\ system' = "faulted"
          /\ UNCHANGED <<numNonControlLogs_, pc, sinceHeartbeat>>
    /\ UNCHANGED <<focus, queue, cm, cmResets, branch, loggingDelayMs>>
    /\ UNCHANGED <<smVars, flightVars, gwVars, initVars, prodVars, debugVars>>

\* the protocol task forwards a SYS_LOG_PERIOD_CHANGE: one
\* TELEMETRY_CHANGE_PERIOD command at a time in the queue of the Telemetry task
Period_Send(paramMs) ==
    /\ focus = "Telemetry" /\ system = "running"
    /\ producer = "periods"
    /\ queue["Telemetry"] = <<>>
    /\ queue' = SendCommand(queue, "Telemetry",
                            Command(TELEMETRY_CHANGE_PERIOD, ClampPeriod(paramMs) % 65536))
    /\ UNCHANGED <<focus, system, pc, cm, cmResets, branch>>
    /\ UNCHANGED <<smVars, flightVars, teleVars, gwVars, initVars, prodVars, debugVars>>

(* ----------------------------- Flight task ----------------------------- *)

\* the phases between RS_PRELAUNCH and RS_ABORT that the model keeps
NumMidPhases == 1

\* enum RocketState
RS_PRELAUNCH == 0
RS_ABORT == NumMidPhases + 1
RS_NONE == RS_ABORT + 1

\* the values SystemStorage::Read leaves in sysState.rocketState
PersistedStates == (RS_PRELAUNCH - 1) .. (RS_NONE + 1)

FLIGHT_TASK_BOOTUP_TELE_CYCLES == 3

\* the SendRocketState calls the model counts
MaxStateCalls == 5

\* the control action of the rocket state machine the protocol task sends
RSC_ANY_TO_ABORT == 7

\* mutation: RS_NONE passes the range check
StartingRocketStateOffByOne(stateReadSuccess, rocketState) ==
    IF stateReadSuccess
    THEN IF rocketState > RS_NONE \/ rocketState < RS_PRELAUNCH
         THEN RS_ABORT
         ELSE rocketState
    ELSE RS_ABORT

\* FlightTask::Run: the starting state the RocketSM is constructed with
StartingRocketState(stateReadSuccess, rocketState) ==
    IF stateReadSuccess
    THEN IF rocketState >= RS_NONE \/ rocketState < RS_PRELAUNCH
         THEN RS_ABORT
         ELSE rocketState
    ELSE RS_ABORT

\* RocketSM::RocketSM(startingState, true): the machine is in startingState
RocketSM_ctor(startingState) == startingState

\* RocketSM::HandleCommand: the abort action moves the machine to RS_ABORT
RocketSM_HandleCommand(rsm, c) ==
    IF c.cmd = CONTROL_ACTION /\ c.tc = RSC_ANY_TO_ABORT THEN RS_ABORT ELSE rsm

\* mutation: firstStateSent_ is incremented on every call
SendRocketStateAlwaysCounts(first, rsm) ==
    LET sys_state == IF first < FLIGHT_TASK_BOOTUP_TELE_CYCLES
                     THEN IF first < 1 THEN "SYS_UNCAUGHT_RESET"
                                       ELSE "SYS_BOOTUP_COMPLETE"
                     ELSE "SYS_NORMAL_OPERATION"
    IN  [firstStateSent_ |-> first + 1,
         log |-> << Out("DMBProtocolTask",
                        Envelope("control", NODE_PMB, NODE_RCU, "sys_state",
                                 sys_state, rsm, NODE_UNSET, 0)) >>]

\* FlightTask::SendRocketState
SendRocketState(first, rsm) ==
    LET sys_state == IF first < FLIGHT_TASK_BOOTUP_TELE_CYCLES
                     THEN IF first < 1 THEN "SYS_UNCAUGHT_RESET"
                                       ELSE "SYS_BOOTUP_COMPLETE"
                     ELSE "SYS_NORMAL_OPERATION"
    IN  [firstStateSent_ |-> IF first < FLIGHT_TASK_BOOTUP_TELE_CYCLES
                             THEN first + 1 ELSE first,
         log |-> << Out("DMBProtocolTask",
                        Envelope("control", NODE_PMB, NODE_RCU, "sys_state",
                                 sys_state, rsm, NODE_UNSET, 0)) >>]

\* FlightTask::HandleCommand: the request is answered in the task, anything
\* else goes to the rocket state machine; then cm.Reset()
Flight_HandleCommand(c, first, rsm) ==
    IF c.cmd = REQUEST_COMMAND /\ c.tc = FT_REQUEST_TRANSMIT_STATE
    THEN LET r == SendRocketState(first, rsm)
         IN  [branch |-> "transmit_state", resets |-> 1, log |-> r.log,
              firstStateSent_ |-> r.firstStateSent_, rsm |-> rsm]
    ELSE [branch |-> "rsm", resets |-> 1, log |-> << Call("rsm_", c) >>,
          firstStateSent_ |-> first, rsm |-> RocketSM_HandleCommand(rsm, c)]

\* the commands the rest of the system sends to the Flight task
FlightCommands ==
    { Command(REQUEST_COMMAND, FT_REQUEST_TRANSMIT_STATE),
      Command(REQUEST_COMMAND, UNKNOWN_TASK_COMMAND),
      Command(CONTROL_ACTION, RSC_ANY_TO_ABORT),
      Command(DATA_COMMAND, BMS_UPDATE) }

\* what FlightTask::Run read at its start and built the machine with
Started(ok, rocketState, startingState) ==
    [readOK |-> ok, rocketState |-> rocketState, startingState |-> startingState]

\* mutation: the machine is constructed only when the read succeeds
Flight_StartOnSuccessOnly(stateReadSuccess, rocketState) ==
    /\ focus = "Flight" /\ system = "running"
    /\ pc["Flight"] = "start"
    /\ LET s == StartingRocketState(stateReadSuccess, rocketState)
       IN  /\ rsm_' = IF stateReadSuccess THEN RocketSM_ctor(s) ELSE rsm_
           /\ flightStart' = Started(stateReadSuccess,
                                     IF stateReadSuccess THEN rocketState ELSE RS_NONE, s)
    /\ pc' = [pc EXCEPT !["Flight"] = "receive"]
    /\ UNCHANGED <<focus, system, queue, cm, cmResets, branch>>
    /\ UNCHANGED <<firstStateSent_, flightLog, stateCalls>>
    /\ UNCHANGED <<smVars, teleVars, gwVars, initVars, prodVars, debugVars>>

\* FlightTask::Run up to the loop: the persisted state is read and the
\* rocket state machine is constructed
Flight_Start(stateReadSuccess, rocketState) ==
    /\ focus = "Flight" /\ system = "running"
    /\ pc["Flight"] = "start"
    /\ LET s == StartingRocketState(stateReadSuccess, rocketState)
       IN  /\ rsm_' = RocketSM_ctor(s)
           /\ flightStart' = Started(stateReadSuccess,
                                     IF stateReadSuccess THEN rocketState ELSE RS_NONE, s)
    /\ pc' = [pc EXCEPT !["Flight"] = "receive"]
    /\ UNCHANGED <<focus, system, queue, cm, cmResets, branch>>
    /\ UNCHANGED <<firstStateSent_, flightLog, stateCalls>>
    /\ UNCHANGED <<smVars, teleVars, gwVars, initVars, prodVars, debugVars>>

\* FlightTask::Run, ReceiveWait: blocks until a command is in the queue
Flight_Receive ==
    /\ focus = "Flight" /\ system = "running"
    /\ pc["Flight"] = "receive"
    /\ queue["Flight"] # <<>>
    /\ Receive("Flight")
    /\ UNCHANGED <<smVars, flightVars, teleVars, gwVars, initVars, prodVars, debugVars>>

\* FlightTask::Run, HandleCommand(cm)
Flight_Handle ==
    /\ focus = "Flight" /\ system = "running"
    /\ pc["Flight"] = "handle"
    /\ LET h == Flight_HandleCommand(cm["Flight"], firstStateSent_, rsm_)
       IN  /\ branch' = [branch EXCEPT !["Flight"] = h.branch]
           /\ cmResets' = [cmResets EXCEPT !["Flight"] = @ + h.resets]
           /\ flightLog' = h.log
           /\ firstStateSent_' = h.firstStateSent_
           /\ rsm_' = h.rsm
           /\ stateCalls' = IF h.branch = "transmit_state" /\ stateCalls < MaxStateCalls
                            THEN stateCalls + 1 ELSE stateCalls
    /\ pc' = [pc EXCEPT !["Flight"] = "receive"]
    /\ UNCHANGED <<focus, system, queue, cm, flightStart>>
    /\ UNCHANGED <<smVars, teleVars, gwVars, initVars, prodVars, debugVars>>

(* ----------------------------------------------------------------------- *)
(* Protocol task: the handlers of decoded envelopes                        *)
(* ----------------------------------------------------------------------- *)

\* sub-commands the handlers send
RADIOHB_REQUEST == 1
ERASE_ALL_FLASH == 2

\* Proto::SystemControl::Command
SysCommands ==
    {"SYS_FLASH_LOG_ENABLE", "SYS_FLASH_LOG_DISABLE", "SYS_RESET",
     "SYS_CRITICAL_FLASH_FULL_ERASE", "SYS_LOG_PERIOD_CHANGE", "SYS_INVALID"}

\* Proto::DmbCommand::Command
CommandEnums == {"RSC_ANY_TO_ABORT", "RSC_NONE"}

\* the nodes an inbound envelope names as source or target
Nodes == {NODE_RCU, NODE_PMB, NODE_DMB}

\* the sequence numbers of an envelope in the model
SequenceNums == {0, 42}

\* an inbound envelope after decoding
InEnv(cat, source, target, has_pmb_command, command_enum, has_hb, has_ping, has_sys_ctrl, sys_cmd, cmd_param, source_sequence_num) ==
    [cat |-> cat, source |-> source, target |-> target,
     has_pmb_command |-> has_pmb_command, command_enum |-> command_enum,
     has_hb |-> has_hb, has_ping |-> has_ping, has_sys_ctrl |-> has_sys_ctrl,
     sys_cmd |-> sys_cmd, cmd_param |-> cmd_param,
     source_sequence_num |-> source_sequence_num]

\* the envelopes of each category that reach the handlers in the model
CommandEnvelopes ==
    { InEnv("command", s, t, p, IF p THEN e ELSE "RSC_NONE",
            FALSE, FALSE, FALSE, "SYS_INVALID", 0, 0) :
        s \in Nodes, t \in Nodes, p \in BOOLEAN, e \in CommandEnums }

ControlEnvelopes ==
    { InEnv("control", s, t, FALSE, "RSC_NONE", hb, pg, sc,
            IF sc THEN c ELSE "SYS_INVALID",
            IF sc /\ c = "SYS_LOG_PERIOD_CHANGE" THEN p ELSE 0,
            n) :
        s \in Nodes, t \in Nodes, hb \in BOOLEAN, pg \in BOOLEAN, sc \in BOOLEAN,
        c \in SysCommands, p \in Params, n \in SequenceNums }

TelemetryEnvelopes ==
    { InEnv("telemetry", s, t, FALSE, "RSC_NONE",
            FALSE, FALSE, FALSE, "SYS_INVALID", 0, 0) :
        s \in Nodes, t \in Nodes }

\* the outcome of a handler: what it sent, and whether it hit SOAR_ASSERT(false)
Routed(log, assert) == [log |-> log, assert |-> assert]

\* mutation: every command enum is forwarded as the abort action
HandleProtobufCommandMessageAnyEnum(msg) ==
    IF msg.source # NODE_RCU \/ msg.target # NODE_PMB
    THEN Routed(<<>>, FALSE)
    ELSE IF ~msg.has_pmb_command
    THEN Routed(<<>>, FALSE)
    ELSE Routed(<< Sent("Flight", Command(CONTROL_ACTION, RSC_ANY_TO_ABORT)) >>, FALSE)

\* PMBProtocolTask::HandleProtobufCommandMessage
HandleProtobufCommandMessage(msg) ==
    IF msg.source # NODE_RCU \/ msg.target # NODE_PMB
    THEN Routed(<<>>, FALSE)
    ELSE IF ~msg.has_pmb_command
    THEN Routed(<<>>, FALSE)
    ELSE IF msg.command_enum = "RSC_ANY_TO_ABORT"
    THEN Routed(<< Sent("Flight", Command(CONTROL_ACTION, RSC_ANY_TO_ABORT)) >>, FALSE)
    ELSE Routed(<<>>, FALSE)

\* mutation: SYS_RESET is left as a TODO like the flash log sub-commands
HandleSysCtrlResetIgnored(msg) ==
    CASE msg.sys_cmd = "SYS_FLASH_LOG_ENABLE" -> Routed(<<>>, FALSE)
      [] msg.sys_cmd = "SYS_FLASH_LOG_DISABLE" -> Routed(<<>>, FALSE)
      [] msg.sys_cmd = "SYS_RESET" -> Routed(<<>>, FALSE)
      [] msg.sys_cmd = "SYS_CRITICAL_FLASH_FULL_ERASE" ->
            Routed(<< Sent("Flash", Command(TASK_SPECIFIC_COMMAND, ERASE_ALL_FLASH)) >>, FALSE)
      [] msg.sys_cmd = "SYS_LOG_PERIOD_CHANGE" ->
            LET paramMs == ClampPeriod(msg.cmd_param)
            IN  Routed(<< Sent("Telemetry", Command(TELEMETRY_CHANGE_PERIOD, paramMs)) >>,
                       FALSE)
      [] OTHER -> Routed(<<>>, FALSE)

\* mutation: an unrecognised sub-command is asserted against
HandleSysCtrlDefaultAsserts(msg) ==
    CASE msg.sys_cmd = "SYS_FLASH_LOG_ENABLE" -> Routed(<<>>, FALSE)
      [] msg.sys_cmd = "SYS_FLASH_LOG_DISABLE" -> Routed(<<>>, FALSE)
      [] msg.sys_cmd = "SYS_RESET" -> Routed(<<>>, TRUE)
      [] msg.sys_cmd = "SYS_CRITICAL_FLASH_FULL_ERASE" ->
            Routed(<< Sent("Flash", Command(TASK_SPECIFIC_COMMAND, ERASE_ALL_FLASH)) >>, FALSE)
      [] msg.sys_cmd = "SYS_LOG_PERIOD_CHANGE" ->
            LET paramMs == ClampPeriod(msg.cmd_param)
            IN  Routed(<< Sent("Telemetry", Command(TELEMETRY_CHANGE_PERIOD, paramMs)) >>,
                       FALSE)
      [] OTHER -> Routed(<<>>, TRUE)

\* mutation: SYS_FLASH_LOG_DISABLE runs the body of the flash erase
HandleSysCtrlDisableErases(msg) ==
    CASE msg.sys_cmd = "SYS_FLASH_LOG_ENABLE" -> Routed(<<>>, FALSE)
      [] msg.sys_cmd = "SYS_FLASH_LOG_DISABLE" -> Routed(<< Sent("Flash", Command(TASK_SPECIFIC_COMMAND, ERASE_ALL_FLASH)) >>, FALSE)
      [] msg.sys_cmd = "SYS_RESET" -> Routed(<<>>, TRUE)
      [] msg.sys_cmd = "SYS_CRITICAL_FLASH_FULL_ERASE" ->
            Routed(<< Sent("Flash", Command(TASK_SPECIFIC_COMMAND, ERASE_ALL_FLASH)) >>, FALSE)
      [] msg.sys_cmd = "SYS_LOG_PERIOD_CHANGE" ->
            LET paramMs == ClampPeriod(msg.cmd_param)
            IN  Routed(<< Sent("Telemetry", Command(TELEMETRY_CHANGE_PERIOD, paramMs)) >>,
                       FALSE)
      [] OTHER -> Routed(<<>>, FALSE)

\* the system-control branch of HandleProtobufControlMesssage
HandleSysCtrl(msg) ==
    CASE msg.sys_cmd = "SYS_FLASH_LOG_ENABLE" -> Routed(<<>>, FALSE)
      [] msg.sys_cmd = "SYS_FLASH_LOG_DISABLE" -> Routed(<<>>, FALSE)
      [] msg.sys_cmd = "SYS_RESET" -> Routed(<<>>, TRUE)
      [] msg.sys_cmd = "SYS_CRITICAL_FLASH_FULL_ERASE" ->
            Routed(<< Sent("Flash", Command(TASK_SPECIFIC_COMMAND, ERASE_ALL_FLASH)) >>, FALSE)
      [] msg.sys_cmd = "SYS_LOG_PERIOD_CHANGE" ->
            LET paramMs == ClampPeriod(msg.cmd_param)
            IN  Routed(<< Sent("Telemetry", Command(TELEMETRY_CHANGE_PERIOD, paramMs)) >>,
                       FALSE)
      [] OTHER -> Routed(<<>>, FALSE)

\* the acknowledgement of a ping
AckResponse(acking_msg_source, acking_sequence_num) ==
    Out("PMBProtocolTask",
        Envelope("control", NODE_UNSET, NODE_UNSET, "ack", "none", NULL,
                 acking_msg_source, acking_sequence_num))

\* mutation: the heartbeat is forwarded as a TASK_SPECIFIC_COMMAND
HandleAcceptedControlHeartbeatKind(msg) ==
    IF msg.has_hb
    THEN Routed(<< Sent("Watchdog", Command(TASK_SPECIFIC_COMMAND, RADIOHB_REQUEST)) >>, FALSE)
    ELSE IF msg.has_ping
    THEN Routed(<< AckResponse(msg.source, msg.source_sequence_num) >>, FALSE)
    ELSE IF msg.has_sys_ctrl
    THEN HandleSysCtrl(msg)
    ELSE Routed(<<>>, FALSE)

\* mutation: the acknowledgement carries the sequence number of a fresh message
HandleAcceptedControlAckOwnSequence(msg) ==
    IF msg.has_hb
    THEN Routed(<< Sent("Watchdog", Command(HEARTBEAT_COMMAND, RADIOHB_REQUEST)) >>, FALSE)
    ELSE IF msg.has_ping
    THEN Routed(<< AckResponse(msg.source, 0) >>, FALSE)
    ELSE IF msg.has_sys_ctrl
    THEN HandleSysCtrl(msg)
    ELSE Routed(<<>>, FALSE)

\* what HandleProtobufControlMesssage does once source and target are accepted
HandleAcceptedControl(msg) ==
    IF msg.has_hb
    THEN Routed(<< Sent("Watchdog", Command(HEARTBEAT_COMMAND, RADIOHB_REQUEST)) >>, FALSE)
    ELSE IF msg.has_ping
    THEN Routed(<< AckResponse(msg.source, msg.source_sequence_num) >>, FALSE)
    ELSE IF msg.has_sys_ctrl
    THEN HandleSysCtrl(msg)
    ELSE Routed(<<>>, FALSE)

\* mutation: the target of a control envelope is not checked
HandleProtobufControlMesssageAnyTarget(msg) ==
    IF msg.source # NODE_RCU
    THEN Routed(<<>>, FALSE)
    ELSE HandleAcceptedControl(msg)

\* mutation: the source of a control envelope is not checked
HandleProtobufControlMesssageAnySource(msg) ==
    IF msg.target # NODE_PMB
    THEN Routed(<<>>, FALSE)
    ELSE HandleAcceptedControl(msg)

\* PMBProtocolTask::HandleProtobufControlMesssage
HandleProtobufControlMesssage(msg) ==
    IF msg.source # NODE_RCU \/ msg.target # NODE_PMB
    THEN Routed(<<>>, FALSE)
    ELSE HandleAcceptedControl(msg)

\* PMBProtocolTask::HandleProtobufTelemetryMessage
HandleProtobufTelemetryMessage(msg) == Routed(<<>>, FALSE)

\* the queues after the commands of a log were sent, in order
RECURSIVE SendAll(_, _)
SendAll(q, log) ==
    IF log = <<>> THEN q
    ELSE SendAll(IF Head(log).kind = "cmd"
                 THEN SendCommand(q, Head(log).to, Head(log).c)
                 ELSE q,
                 Tail(log))

\* the protocol task hands a decoded envelope to the handler of its category
Protocol_Handle(msg) ==
    /\ focus = "Protocol" /\ system = "running"
    /\ LET r == CASE msg.cat = "command" -> HandleProtobufCommandMessage(msg)
                  [] msg.cat = "control" -> HandleProtobufControlMesssage(msg)
                  [] OTHER -> HandleProtobufTelemetryMessage(msg)
       IN  /\ gwEnv' = msg
           /\ gwLog' = r.log
           /\ queue' = SendAll(queue, r.log)
           /\ system' = IF r.assert THEN soar_assert_debug ELSE system
    /\ UNCHANGED <<focus, pc, cm, cmResets, branch>>
    /\ UNCHANGED <<smVars, flightVars, teleVars, initVars, prodVars, debugVars>>

(* ----------------------------------------------------------------------- *)
(* Producers that number the commands they send                            *)
(* ----------------------------------------------------------------------- *)

\* the numbers wrap after more commands than a queue holds
SeqModulus == FLIGHT_TASK_QUEUE_DEPTH_OBJS + 2

\* the contexts a command is sent from: a task (SendCommand) or an
\* interrupt handler (SendFromISR)
Contexts == {"task", "isr"}

\* a send and what it returned
SendOf(n, ctx, c, ok) == [n |-> n, ctx |-> ctx, c |-> c, ok |-> ok]

\* a task or an interrupt handler sends the next numbered command to the
\* task the behaviour follows; the send reports whether the queue took it
Producer_Send(t, ctx) ==
    /\ focus = t /\ system = "running"
    /\ producer = "numbered"
    /\ LET c == Command(DATA_COMMAND, nextSeq)
           q == SendCommand(queue, t, c)
           ok == q # queue
       IN  /\ queue' = q
           /\ nextSeq' = IF ok THEN (nextSeq + 1) % SeqModulus ELSE nextSeq
           /\ lastSend' = SendOf(1 - lastSend.n, ctx, c, ok)
    /\ UNCHANGED <<focus, system, pc, cm, cmResets, branch, producer>>
    /\ UNCHANGED <<smVars, flightVars, teleVars, gwVars, initVars, debugVars>>

(* ----------------------------------------------------------------------- *)
(* InitTask: the creation of the thread of a task                          *)
(* ----------------------------------------------------------------------- *)

\* the results of xTaskCreate
pdPASS == 1
errCOULD_NOT_ALLOCATE_REQUIRED_MEMORY == -1

\* the handle xTaskCreate stores for the thread it made
HANDLE == 1

\* the outcome of an InitTask
Inited(handle, made, assert) == [handle |-> handle, made |-> made, assert |-> assert]

\* mutation: InitTask without the check of rtTaskHandle
InitTaskUnchecked(handle, rtValue) ==
    IF rtValue = pdPASS
    THEN Inited(HANDLE, 1, FALSE)
    ELSE Inited(handle, 0, TRUE)

\* InitTask of BMSTask, FlightTask, TelemetryTask, DebugTask and
\* PMBProtocolTask: assert that rtTaskHandle is null, xTaskCreate, assert
\* that it passed
InitTask(handle, rtValue) ==
    IF handle # NULL
    THEN Inited(handle, 0, TRUE)
    ELSE IF rtValue = pdPASS
    THEN Inited(HANDLE, 1, FALSE)
    ELSE Inited(handle, 0, TRUE)

\* an InitTask call: the task, the handle it found, the result of xTaskCreate
InitCall(t, handle, rtValue) == [task |-> t, handle |-> handle, rtValue |-> rtValue]

\* InitTask of task t is called, and xTaskCreate returns rtValue if reached
Task_InitTask(t, rtValue) ==
    /\ focus = "init" /\ system = "running"
    /\ LET r == InitTask(rtTaskHandle[t], rtValue)
       IN  /\ rtTaskHandle' = [rtTaskHandle EXCEPT ![t] = r.handle]
           /\ threads' = [threads EXCEPT ![t] = @ + r.made]
           /\ system' = IF r.assert THEN soar_assert_debug ELSE system
    /\ initOp' = InitCall(t, rtTaskHandle[t], rtValue)
    /\ UNCHANGED <<focus, queue, pc, cm, cmResets, branch>>
    /\ UNCHANGED <<smVars, flightVars, teleVars, gwVars, prodVars, debugVars>>

(* ----------------------------------------------------------------------- *)
(* Debug task: the receive interrupt and the run loop                      *)
(* ----------------------------------------------------------------------- *)

\* the bytes debugBuffer holds before its terminator, and the sub-command of
\* the event the interrupt handler sends
DEBUG_RX_BUFFER_SZ_BYTES == 8
EVENT_DEBUG_RX_COMPLETE == 1

\* the bytes '\0' and '\r'; every byte is its ASCII code
NUL == 0
CR == 13

\* the text "sysreset"
Sysreset == <<115, 121, 115, 114, 101, 115, 101, 116>>

\* the bytes the terminal can send next. It types lines, each followed by
\* a carriage return: an empty line, the unknown command "x", sysreset, and
\* a line of x longer than the buffer. While a message is latched any byte
\* comes, otherwise the next byte of a line that starts with what was typed.
RxChars(buffer, idx, ready) ==
    LET lines == {<<>>, <<120>>, Sysreset,
                  [k \in 1 .. (DEBUG_RX_BUFFER_SZ_BYTES + 1) |-> 120]}
    IN  IF ready
        THEN {CR, 120}
        ELSE { IF idx < Len(l) THEN l[idx + 1] ELSE CR :
                 l \in { v \in lines : /\ idx <= Len(v)
                                       /\ [k \in 1 .. idx |-> buffer[k - 1]]
                                              = SubSeq(v, 1, idx) } }

\* the text of a null-terminated buffer, as strcmp and %s read it
CString(buffer) ==
    LET ends == { i \in 0 .. DEBUG_RX_BUFFER_SZ_BYTES : buffer[i] = NUL }
        n == IF ends = {} THEN DEBUG_RX_BUFFER_SZ_BYTES + 1
             ELSE CHOOSE i \in ends : \A j \in ends : i <= j
    IN  [k \in 1 .. n |-> buffer[k - 1]]

\* the outcome of an InterruptRxData call
Rx(buffer, idx, ready, q, outcome, wrote) ==
    [debugBuffer |-> buffer, debugMsgIdx |-> idx, isDebugMsgReady |-> ready,
     queue |-> q, outcome |-> outcome, wrote |-> wrote, armed |-> TRUE]

\* mutation: a failed SendFromISR leaves the message latched
InterruptRxDataKeepsLatch(buffer, idx, ready, q, debugRxChar) ==
    IF ready
    THEN Rx(buffer, idx, ready, q, "ignored", NULL)
    ELSE IF debugRxChar = CR \/ idx = DEBUG_RX_BUFFER_SZ_BYTES
    THEN LET sent == SendCommand(q, "Debug", Command(DATA_COMMAND, EVENT_DEBUG_RX_COMPLETE))
             res == sent # q
         IN  Rx([buffer EXCEPT ![idx] = NUL], idx + 1, TRUE, sent,
                IF res THEN "sent" ELSE "failed", idx)
    ELSE Rx([buffer EXCEPT ![idx] = debugRxChar], idx + 1, FALSE, q, "stored", idx)

\* mutation: the handler takes bytes while a message is latched
InterruptRxDataWhileLatched(buffer, idx, ready, q, debugRxChar) ==
    IF debugRxChar = CR \/ idx = DEBUG_RX_BUFFER_SZ_BYTES
    THEN LET sent == SendCommand(q, "Debug", Command(DATA_COMMAND, EVENT_DEBUG_RX_COMPLETE))
             res == sent # q
         IN  Rx([buffer EXCEPT ![idx] = NUL],
                IF res THEN idx + 1 ELSE 0,
                res, sent,
                IF res THEN "sent" ELSE "failed", idx)
    ELSE Rx([buffer EXCEPT ![idx] = debugRxChar], idx + 1, ready, q, "stored", idx)

\* mutation: the message is completed one byte after the buffer is full
InterruptRxDataLateFull(buffer, idx, ready, q, debugRxChar) ==
    IF ready
    THEN Rx(buffer, idx, ready, q, "ignored", NULL)
    ELSE IF debugRxChar = CR \/ idx = DEBUG_RX_BUFFER_SZ_BYTES + 1
    THEN LET sent == SendCommand(q, "Debug", Command(DATA_COMMAND, EVENT_DEBUG_RX_COMPLETE))
             res == sent # q
         IN  Rx([buffer EXCEPT ![idx] = NUL],
                IF res THEN idx + 1 ELSE 0,
                res, sent,
                IF res THEN "sent" ELSE "failed", idx)
    ELSE Rx([buffer EXCEPT ![idx] = debugRxChar], idx + 1, FALSE, q, "stored", idx)

\* DebugTask::InterruptRxData with the byte debugRxChar received; it ends
\* with ReceiveData(), which arms the interrupt again
InterruptRxData(buffer, idx, ready, q, debugRxChar) ==
    IF ready
    THEN Rx(buffer, idx, ready, q, "ignored", NULL)
    ELSE IF debugRxChar = CR \/ idx = DEBUG_RX_BUFFER_SZ_BYTES
    THEN LET sent == SendCommand(q, "Debug", Command(DATA_COMMAND, EVENT_DEBUG_RX_COMPLETE))
             res == sent # q
         IN  Rx([buffer EXCEPT ![idx] = NUL],
                IF res THEN idx + 1 ELSE 0,
                res, sent,
                IF res THEN "sent" ELSE "failed", idx)
    ELSE Rx([buffer EXCEPT ![idx] = debugRxChar], idx + 1, FALSE, q, "stored", idx)

\* DebugTask::HandleDebugMessage up to the clearing of the buffer: the branch
\* the text takes
HandleDebugMessage(msg) ==
    CASE msg = Sysreset -> "sysreset"
      [] msg = <<115, 121, 115, 105, 110, 102, 111>> -> "sysinfo"
      [] msg = <<98, 108, 105, 110, 107, 108, 101, 100>> -> "blinkled"
      [] OTHER -> "unknown"

\* DebugTask::Run, ReceiveData(): the interrupt is armed
Debug_Start ==
    /\ focus = "Debug" /\ system = "running"
    /\ pc["Debug"] = "start"
    /\ rxArmed' = TRUE
    /\ pc' = [pc EXCEPT !["Debug"] = "receive"]
    /\ UNCHANGED <<focus, system, queue, cm, cmResets, branch>>
    /\ UNCHANGED <<debugBuffer, debugMsgIdx, isDebugMsgReady, rxOp, debugMsg>>
    /\ UNCHANGED <<smVars, flightVars, teleVars, gwVars, initVars, prodVars>>

\* the receive interrupt of the debug UART: InterruptRxData
Debug_InterruptRxData(debugRxChar) ==
    /\ focus = "Debug" /\ system = "running"
    /\ rxArmed
    /\ LET r == InterruptRxData(debugBuffer, debugMsgIdx, isDebugMsgReady, queue, debugRxChar)
       IN  /\ debugBuffer' = r.debugBuffer
           /\ debugMsgIdx' = r.debugMsgIdx
           /\ isDebugMsgReady' = r.isDebugMsgReady
           /\ queue' = r.queue
           /\ rxArmed' = r.armed
           /\ rxOp' = [outcome |-> r.outcome, wrote |-> r.wrote,
                       line |-> IF r.outcome = "ignored" THEN rxOp.line
                                ELSE (IF debugMsgIdx = 0 THEN <<>> ELSE rxOp.line)
                                     \o (IF r.outcome = "stored" THEN <<debugRxChar>> ELSE <<>>)]
    /\ UNCHANGED <<focus, system, pc, cm, cmResets, branch, debugMsg>>
    /\ UNCHANGED <<smVars, flightVars, teleVars, gwVars, initVars, prodVars>>

\* DebugTask::Run, ReceiveWait: blocks until a command is in the queue
Debug_Receive ==
    /\ focus = "Debug" /\ system = "running"
    /\ pc["Debug"] = "receive"
    /\ queue["Debug"] # <<>>
    /\ Receive("Debug")
    /\ UNCHANGED <<smVars, flightVars, teleVars, gwVars, initVars, prodVars, debugVars>>

\* DebugTask::Run, the test of the command: HandleDebugMessage reads the
\* buffer for the receive event, and any other command is only reset
Debug_Handle ==
    /\ focus = "Debug" /\ system = "running"
    /\ pc["Debug"] = "handle"
    /\ IF cm["Debug"] = Command(DATA_COMMAND, EVENT_DEBUG_RX_COMPLETE)
       THEN /\ debugMsg' = CString(debugBuffer)
            /\ branch' = [branch EXCEPT !["Debug"] = HandleDebugMessage(debugMsg')]
            /\ IF branch'["Debug"] = "sysreset"
               THEN system' = "asserted" /\ pc' = pc
               ELSE system' = system /\ pc' = [pc EXCEPT !["Debug"] = "clear"]
            /\ UNCHANGED cmResets
       ELSE /\ branch' = [branch EXCEPT !["Debug"] = "none"]
            /\ cmResets' = [cmResets EXCEPT !["Debug"] = @ + 1]
            /\ pc' = [pc EXCEPT !["Debug"] = "receive"]
            /\ UNCHANGED <<system, debugMsg>>
    /\ UNCHANGED <<focus, queue, cm>>
    /\ UNCHANGED <<debugBuffer, debugMsgIdx, isDebugMsgReady, rxArmed, rxOp>>
    /\ UNCHANGED <<smVars, flightVars, teleVars, gwVars, initVars, prodVars>>

\* the end of HandleDebugMessage, which clears the buffer, and cm.Reset()
Debug_Clear ==
    /\ focus = "Debug" /\ system = "running"
    /\ pc["Debug"] = "clear"
    /\ debugMsgIdx' = 0
    /\ isDebugMsgReady' = FALSE
    /\ cmResets' = [cmResets EXCEPT !["Debug"] = @ + 1]
    /\ pc' = [pc EXCEPT !["Debug"] = "receive"]
    /\ UNCHANGED <<focus, system, queue, cm, branch>>
    /\ UNCHANGED <<debugBuffer, rxArmed, rxOp, debugMsg>>
    /\ UNCHANGED <<smVars, flightVars, teleVars, gwVars, initVars, prodVars>>

\* another task sends the Debug task a command that is no receive event
Debug_OtherSend ==
    /\ focus = "Debug" /\ system = "running"
    /\ Len(queue["Debug"]) < QueueDepth("Debug")
    /\ queue' = SendCommand(queue, "Debug", Command(REQUEST_COMMAND, UNKNOWN_TASK_COMMAND))
    /\ UNCHANGED <<focus, system, pc, cm, cmResets, branch>>
    /\ UNCHANGED <<smVars, flightVars, teleVars, gwVars, initVars, prodVars, debugVars>>

(* ----------------------------------------------------------------------- *)
(* Specifications                                                          *)
(* ----------------------------------------------------------------------- *)

TaskInit ==
    /\ system = "running"
    /\ queue = [t \in Tasks \cup {"Debug"} |-> <<>>]
    /\ pc = [t \in Tasks \cup {"Debug"} |->
                IF t \in {"Flight", "Debug"} THEN "start" ELSE "receive"]
    /\ cm = [t \in Tasks \cup {"Debug"} |-> NoCommand]
    /\ cmResets = [t \in Tasks \cup {"Debug"} |-> 0]
    /\ branch = [t \in Tasks \cup {"Debug"} |-> "none"]

FlightInit ==
    /\ rsm_ = NULL
    /\ flightStart = Started(FALSE, RS_NONE, RS_NONE)
    /\ firstStateSent_ = 0
    /\ flightLog = <<>>
    /\ stateCalls = 0

TelemetryInit ==
    /\ loggingDelayMs = TELEMETRY_DEFAULT_LOGGING_RATE_MS
    /\ numNonControlLogs_ = 0
    /\ teleLog = <<>>
    /\ sinceHeartbeat = NULL

ProtocolInit ==
    /\ gwEnv = InEnv("none", NODE_UNSET, NODE_UNSET, FALSE, "RSC_NONE",
                     FALSE, FALSE, FALSE, "SYS_INVALID", 0, 0)
    /\ gwLog = <<>>

ThreadInit ==
    /\ rtTaskHandle = [t \in AllTasks |-> NULL]
    /\ threads = [t \in AllTasks |-> 0]
    /\ initOp = InitCall("none", NULL, pdPASS)

\* DebugTask::DebugTask
DebugInit ==
    /\ debugBuffer = [i \in 0 .. DEBUG_RX_BUFFER_SZ_BYTES |-> NUL]
    /\ debugMsgIdx = 0
    /\ isDebugMsgReady = FALSE
    /\ rxArmed = FALSE
    /\ rxOp = [outcome |-> "none", wrote |-> NULL, line |-> <<>>]
    /\ debugMsg = <<>>

ProducerInit ==
    /\ producer \in IF focus = "Telemetry" THEN {"commands", "numbered", "periods"}
                    ELSE IF focus \in Tasks THEN {"commands", "numbered"}
                    ELSE {"commands"}
    /\ nextSeq = 0
    /\ lastSend = SendOf(0, "task", NoCommand, FALSE)

Init ==
    /\ focus \in Scenes
    /\ SMInit /\ TaskInit /\ FlightInit /\ TelemetryInit /\ ProtocolInit
    /\ ThreadInit /\ ProducerInit /\ DebugInit

\* the battery state machine on the table its constructor builds
NextSM ==
    \/ Construct({BuildStateArray})
    \/ \E n \in StateArgs : SM_TransitionState(n)
    \/ \E c \in SMCommands, r \in 0 .. BS_NONE : SM_HandleCommand(c, r)

NextBMS ==
    \/ BMS_Receive
    \/ BMS_Handle
    \/ \E c \in BMSCommands : EnvSend("BMS", c)

RunTelemetry ==
    \/ Telemetry_Receive
    \/ Telemetry_ReceiveEmpty
    \/ Telemetry_Handle
    \/ Telemetry_RunLogSequence

NextTelemetry ==
    \/ RunTelemetry
    \/ \E c \in TelemetryCommands : EnvSend("Telemetry", c)

NextFlight ==
    \/ \E ok \in BOOLEAN, s \in PersistedStates : Flight_Start(ok, s)
    \/ Flight_Receive
    \/ Flight_Handle
    \/ \E c \in FlightCommands : EnvSend("Flight", c)

NextProtocol ==
    \E msg \in CommandEnvelopes \cup ControlEnvelopes \cup TelemetryEnvelopes :
        Protocol_Handle(msg)

\* the task loops fed by producers that number their commands
NextQueue ==
    \/ BMS_Receive \/ BMS_Handle
    \/ RunTelemetry
    \/ \E ok \in BOOLEAN, s \in PersistedStates : Flight_Start(ok, s)
    \/ Flight_Receive \/ Flight_Handle
    \/ \E t \in Tasks, ctx \in Contexts : Producer_Send(t, ctx)

\* the threads of the tasks are created
NextInit ==
    \E t \in AllTasks, rtValue \in {pdPASS, errCOULD_NOT_ALLOCATE_REQUIRED_MEMORY} :
        Task_InitTask(t, rtValue)

NextDebug ==
    \/ Debug_Start
    \/ Debug_Receive
    \/ Debug_Handle
    \/ Debug_Clear
    \/ \E debugRxChar \in RxChars(debugBuffer, debugMsgIdx, isDebugMsgReady) : Debug_InterruptRxData(debugRxChar)
    \/ Debug_OtherSend

\* the Telemetry task while the log period is changed, one change at a time
NextHeartbeat ==
    \/ RunTelemetry
    \/ \E paramMs \in {300, 1000, 1500} : Period_Send(paramMs)

Next ==
    \/ NextSM \/ NextBMS \/ NextTelemetry \/ NextFlight \/ NextProtocol
    \/ NextQueue \/ NextInit \/ NextDebug \/ NextHeartbeat

Spec == Init /\ [][Next]_vars

\* the battery state machine alone
InitSM == Init /\ focus = "sm"

SpecSM == InitSM /\ [][NextSM]_vars

\* the same machine built on any table, right or wrong
NextCtor ==
    \/ Construct(CandidateTables)
    \/ \E n \in StateArgs : SM_TransitionState(n)
    \/ \E c \in SMCommands, r \in 0 .. BS_NONE : SM_HandleCommand(c, r)

SpecCtor == InitSM /\ [][NextCtor]_vars

\* the task loops alone, each against the commands the rest of the system sends
NextLoops == NextBMS \/ NextTelemetry \/ NextFlight

InitLoops == Init /\ focus \in Tasks /\ producer = "commands"

SpecLoops == InitLoops /\ [][NextLoops]_vars

\* the protocol task alone
InitProtocol == Init /\ focus = "Protocol"

SpecProtocol == InitProtocol /\ [][NextProtocol]_vars

\* the task loops alone, each against producers that number their commands
InitQueue == Init /\ focus \in Tasks /\ producer = "numbered"

SpecQueue == InitQueue /\ [][NextQueue]_vars

\* the creation of the threads alone
InitThreads == Init /\ focus = "init"

SpecThreads == InitThreads /\ [][NextInit]_vars

\* the Debug task alone, with its receive interrupt and the other senders
InitDebug == Init /\ focus = "Debug"

SpecDebug == InitDebug /\ [][NextDebug]_vars

\* the Debug task scheduled fairly: a step of Run that stays possible is
\* taken; the interrupt comes when the terminal sends a byte
SpecDebugFair ==
    /\ InitDebug
    /\ [][NextDebug]_vars
    /\ WF_vars(Debug_Start) /\ WF_vars(Debug_Receive)
    /\ WF_vars(Debug_Handle) /\ WF_vars(Debug_Clear)

\* the Telemetry task alone while the log period is changed, with the time
\* between its heartbeat commands
InitHeartbeat == Init /\ focus = "Telemetry" /\ producer = "periods"

SpecHeartbeat == InitHeartbeat /\ [][NextHeartbeat]_vars

\* the Telemetry task against producers that never stop, scheduled fairly:
\* a step of Run that stays possible is taken
NextTelemetryFair ==
    \/ RunTelemetry
    \/ \E ctx \in Contexts : Producer_Send("Telemetry", ctx)

InitTelemetryFair == Init /\ focus = "Telemetry" /\ producer = "numbered"

SpecTelemetryFair ==
    /\ InitTelemetryFair
    /\ [][NextTelemetryFair]_vars
    /\ WF_vars(Telemetry_Receive) /\ WF_vars(Telemetry_ReceiveEmpty)
    /\ WF_vars(Telemetry_Handle) /\ WF_vars(Telemetry_RunLogSequence)

(* ----------------------------------------------------------------------- *)
(* Properties of the battery state machine                                 *)
(* ----------------------------------------------------------------------- *)

\* the id of the state the machine was in before its last operation
PreID == GetStateID(stateArray, smOp.pre)

\* the id of the state the machine is in
CurID == GetStateID(stateArray, bs_currentState)

\* C2: TransitionState(next) with next in [BS_IDLE, BS_NONE) and next other
\* than the current id calls OnExit of the old state, then swaps the pointer
\* to stateArray[next], then calls OnEnter of the new state, each once; it
\* returns next and the current id is next afterwards.
C2_TransitionRunsExitSwapEnter ==
    (smOp.op = "TransitionState" /\ smOp.arg \in Slots /\ smOp.arg # PreID)
        => /\ hookLog = <<Hook("OnExit", PreID), Hook("OnEnter", smOp.arg)>>
           /\ smIndexed = <<smOp.arg>>
           /\ bs_currentState = SlotPointer(stateArray, smOp.arg)
           /\ CurID = smOp.arg
           /\ smRet = smOp.arg
           /\ smPhase = "running"

C2_Witness ==
    /\ smOp.op = "TransitionState"
    /\ smOp.pre = BS_CHARGING
    /\ smOp.arg = BS_FAULT
    /\ CurID = BS_FAULT
    /\ Len(hookLog) = 2

\* C3: TransitionState(current id) changes nothing in any state: it returns
\* the current id, leaves the pointer where it was and calls no hook.
C3_SelfTransitionIsNoOp ==
    (smOp.op = "TransitionState" /\ smOp.arg = PreID)
        => /\ bs_currentState = smOp.pre
           /\ smRet = PreID
           /\ hookLog = <<>>
           /\ smIndexed = <<>>
           /\ smPhase = "running"

C3_Witness ==
    /\ smOp.op = "TransitionState"
    /\ smOp.pre = BS_DISCHARGING
    /\ smOp.arg = BS_DISCHARGING
    /\ bs_currentState = BS_DISCHARGING

\* C4: TransitionState(next) with next >= BS_NONE is rejected in every state:
\* it returns the current id, leaves the pointer where it was, calls no hook
\* and does not index stateArray.
C4_InvalidTargetRejected ==
    (smOp.op = "TransitionState" /\ smOp.arg >= BS_NONE)
        => /\ bs_currentState = smOp.pre
           /\ smRet = PreID
           /\ hookLog = <<>>
           /\ smIndexed = <<>>
           /\ smPhase = "running"

C4_Witness ==
    /\ smOp.op = "TransitionState"
    /\ smOp.arg = BS_NONE
    /\ smOp.pre = BS_IDLE
    /\ bs_currentState = BS_IDLE

\* C5: for a DATA_COMMAND with sub-command BMS_UPDATE, CHARGER_UPDATE or
\* FUEL_GAUGE_UPDATE, HandleCommand calls the matching handler on the current
\* state and applies the id it returns through TransitionState: afterwards
\* the machine is in the state TransitionState(returned id) leaves it in, with
\* the exit and entry hooks run.
C5_HandlerResultApplied ==
    (smOp.op = "HandleCommand" /\ DataHandler(smOp.cm) # "none")
        => LET r == TransitionState(stateArray, smOp.pre, smOp.nextState)
           IN  /\ hookLog = <<Hook(DataHandler(smOp.cm), PreID)>> \o r.log
               /\ bs_currentState = r.cur

\* C6: once the constructor has completed, every slot of stateArray holds a
\* state object whose id is the index of the slot; a table with a null slot or
\* a mismatched id stops the system in the constructor's assertion and the
\* machine has no current state; the table never changes after construction.
C6_TableVerifiedAtConstruction ==
    /\ [] /\ (smPhase = "running"
                => \A i \in Slots : stateArray[i] # NULL /\ GetStateID(stateArray, i) = i)
          /\ ((smPhase # "unbuilt"
                 /\ \E i \in Slots : stateArray[i] = NULL \/ stateArray[i] # i)
                => smPhase = soar_assert_debug /\ bs_currentState = NULL /\ hookLog = <<>>)
    /\ [][smPhase # "unbuilt" => stateArray' = stateArray]_smVars

C6_Witness ==
    /\ smPhase = soar_assert_debug
    /\ smOp.op = "ctor"
    /\ stateArray[BS_IDLE] = BS_IDLE
    /\ stateArray[BS_CHARGING] = BS_DISCHARGING

\* C7: a starting state outside [BS_IDLE, BS_NONE) is validated before use:
\* the constructor does not index stateArray out of range and leaves the
\* machine in BS_FAULT.
C7_StartingStateValidated ==
    (smOp.op = "ctor" /\ smOp.arg \notin Slots /\ smPhase # soar_assert_debug)
        => /\ \A k \in 1 .. Len(smIndexed) : smIndexed[k] \in Slots
           /\ smPhase = "running"
           /\ CurID = BS_FAULT

\* C1: in the BMS, Telemetry and Flight loops HandleCommand calls Reset() on
\* the popped command exactly once, after the handling and before the next
\* receive, on every branch; handling never halts the task and the loop goes
\* back to receive.
C1_ResetOncePerCommand ==
    [][\A t \in Tasks :
          /\ (pc[t] = "handle" /\ pc'[t] # "handle") =>
                /\ cmResets[t] = 0 /\ cmResets'[t] = 1
                /\ branch'[t] # "none"
                /\ pc'[t] = "receive"
                /\ system' = "running"
          /\ (pc[t] # "handle" /\ pc'[t] = "handle") =>
                (cm[t] = NoCommand \/ cmResets[t] = 1)
          /\ (pc[t] # "handle") => cmResets'[t] \in {cmResets[t], 0}]_vars

\* the BMS task has handled a command of an unsupported kind, reset it once
\* and is back at receive
C1_Witness ==
    /\ pc["BMS"] = "receive" /\ system = "running"
    /\ cm["BMS"].cmd = DATA_COMMAND
    /\ branch["BMS"] = "unsupported"
    /\ cmResets["BMS"] = 1

\* C8: FlightTask::Run constructs the RocketSM with RS_ABORT when the read of
\* the persisted state fails or the persisted state is outside
\* [RS_PRELAUNCH, RS_NONE), with the persisted state itself otherwise, and
\* never with a state outside [RS_PRELAUNCH, RS_NONE).
C8_StartingStateRecovered ==
    pc["Flight"] # "start" =>
        /\ flightStart.startingState \in RS_PRELAUNCH .. (RS_NONE - 1)
        /\ flightStart.startingState =
              IF /\ flightStart.readOK
                 /\ flightStart.rocketState >= RS_PRELAUNCH
                 /\ flightStart.rocketState < RS_NONE
              THEN flightStart.rocketState
              ELSE RS_ABORT

\* the read succeeded with RS_NONE persisted and the machine started in RS_ABORT
C8_Witness ==
    /\ pc["Flight"] # "start"
    /\ flightStart.readOK /\ flightStart.rocketState = RS_NONE
    /\ flightStart.startingState = RS_ABORT

\* C9: a control envelope whose target is not NODE_PMB produces no Command
\* to any task and no outbound envelope, whatever its sub-type and source.
C9_ControlForAnotherNodeDropped ==
    (gwEnv.cat = "control" /\ gwEnv.target # NODE_PMB) =>
        (gwLog = <<>> /\ \A t \in Tasks : queue[t] = <<>>)

\* a flash erase from the controller, addressed to another node, was handled
C9_Witness ==
    /\ gwEnv.cat = "control" /\ gwEnv.source = NODE_RCU /\ gwEnv.target = NODE_DMB
    /\ gwEnv.has_sys_ctrl /\ ~gwEnv.has_hb /\ ~gwEnv.has_ping
    /\ gwEnv.sys_cmd = "SYS_CRITICAL_FLASH_FULL_ERASE"
    /\ gwLog = <<>>

\* C10: a command or control envelope whose source is not NODE_RCU is
\* dropped: no Command is sent, no envelope goes out and nothing halts, also
\* for SYS_RESET, SYS_CRITICAL_FLASH_FULL_ERASE and RSC_ANY_TO_ABORT.
C10_ForeignSourceDropped ==
    (gwEnv.cat \in {"command", "control"} /\ gwEnv.source # NODE_RCU) =>
        /\ gwLog = <<>>
        /\ \A t \in Tasks : queue[t] = <<>>
        /\ system = "running"

\* a SYS_RESET addressed to this node by a node other than the controller
\* was handled
C10_Witness ==
    /\ gwEnv.cat = "control" /\ gwEnv.source = NODE_DMB /\ gwEnv.target = NODE_PMB
    /\ gwEnv.has_sys_ctrl /\ ~gwEnv.has_hb /\ ~gwEnv.has_ping
    /\ gwEnv.sys_cmd = "SYS_RESET"
    /\ system = "running"

\* the last envelope handled came from the controller and is addressed to
\* this node
Validated == gwEnv.source = NODE_RCU /\ gwEnv.target = NODE_PMB

\* the sub-type of the last control envelope: the one payload it carries
SubType ==
    CASE gwEnv.has_hb /\ ~gwEnv.has_ping /\ ~gwEnv.has_sys_ctrl -> "hb"
      [] ~gwEnv.has_hb /\ gwEnv.has_ping /\ ~gwEnv.has_sys_ctrl -> "ping"
      [] ~gwEnv.has_hb /\ ~gwEnv.has_ping /\ gwEnv.has_sys_ctrl -> "sys_ctrl"
      [] ~gwEnv.has_hb /\ ~gwEnv.has_ping /\ ~gwEnv.has_sys_ctrl -> "none"
      [] OTHER -> "mixed"

\* the last envelope handled is a validated system control with this sub-command
ValidatedSysCtrl(sys_cmd) ==
    /\ gwEnv.cat = "control" /\ Validated
    /\ SubType = "sys_ctrl" /\ gwEnv.sys_cmd = sys_cmd

\* C11: a validated heartbeat results in exactly one HEARTBEAT_COMMAND with
\* sub-command RADIOHB_REQUEST sent to the Watchdog task, no other Command
\* and no outbound envelope.
C11_HeartbeatForwarded ==
    (gwEnv.cat = "control" /\ Validated /\ SubType = "hb") =>
        gwLog = << Sent("Watchdog", Command(HEARTBEAT_COMMAND, RADIOHB_REQUEST)) >>

\* a validated heartbeat was handled and one command was sent
C11_Witness ==
    /\ gwEnv.cat = "control" /\ Validated /\ SubType = "hb"
    /\ Len(gwLog) = 1 /\ gwLog[1].to = "Watchdog"

\* C12: a validated ping with sequence number n produces exactly one outbound
\* control envelope, an acknowledgement of the peer and of n, and no Command.
C12_PingAcknowledged ==
    (gwEnv.cat = "control" /\ Validated /\ SubType = "ping") =>
        /\ Len(gwLog) = 1
        /\ gwLog[1].kind = "out"
        /\ gwLog[1].env.cat = "control" /\ gwLog[1].env.kind = "ack"
        /\ gwLog[1].env.ack_source = gwEnv.source
        /\ gwLog[1].env.ack_seq = gwEnv.source_sequence_num

\* a validated ping with sequence number 42 was acknowledged
C12_Witness ==
    /\ gwEnv.cat = "control" /\ Validated /\ SubType = "ping"
    /\ gwEnv.source_sequence_num = 42
    /\ Len(gwLog) = 1 /\ gwLog[1].env.ack_seq = 42

\* C13: a validated SYS_LOG_PERIOD_CHANGE whose parameter exceeds 0xFFFF
\* results in a TELEMETRY_CHANGE_PERIOD Command carrying 0xFFFF.
C13_PeriodClampedToMax ==
    (ValidatedSysCtrl("SYS_LOG_PERIOD_CHANGE") /\ gwEnv.cmd_param > 65535) =>
        gwLog = << Sent("Telemetry", Command(TELEMETRY_CHANGE_PERIOD, 65535)) >>

\* C14: a validated SYS_RESET halts the system in the assertion: nothing is
\* sent for it and no step follows; no other envelope halts the system.
C14_ResetHalts ==
    /\ [](gwEnv.cat # "none" =>
            /\ (system = soar_assert_debug) <=> ValidatedSysCtrl("SYS_RESET")
            /\ ValidatedSysCtrl("SYS_RESET") => gwLog = <<>>)
    /\ [][system # soar_assert_debug]_vars

\* a validated SYS_RESET was handled and the system is in the assertion
C14_Witness ==
    /\ ValidatedSysCtrl("SYS_RESET")
    /\ system = soar_assert_debug /\ gwLog = <<>>

\* the Command that erases the flash
EraseAllFlash == Sent("Flash", Command(TASK_SPECIFIC_COMMAND, ERASE_ALL_FLASH))

\* some event of the log is a Command to the Flash task
SendsToFlash(log) == \E i \in 1 .. Len(log) : log[i].kind = "cmd" /\ log[i].to = "Flash"

\* C15: ERASE_ALL_FLASH is sent to the Flash task only for a validated
\* SYS_CRITICAL_FLASH_FULL_ERASE, once per such envelope; no other envelope
\* and no task sends it.
C15_EraseOnlyOnRequest ==
    /\ ~SendsToFlash(teleLog) /\ ~SendsToFlash(flightLog)
    /\ SendsToFlash(gwLog) => ValidatedSysCtrl("SYS_CRITICAL_FLASH_FULL_ERASE")
    /\ ValidatedSysCtrl("SYS_CRITICAL_FLASH_FULL_ERASE") => gwLog = << EraseAllFlash >>

\* a validated flash erase request was handled and the Command went out
C15_Witness ==
    /\ ValidatedSysCtrl("SYS_CRITICAL_FLASH_FULL_ERASE")
    /\ gwLog = << EraseAllFlash >>

\* the envelope is one the protocol task does not act on
Silent(msg) ==
    \/ msg.cat = "telemetry"
    \/ /\ msg.cat = "control" /\ msg.source = NODE_RCU /\ msg.target = NODE_PMB
       /\ ~msg.has_hb /\ ~msg.has_ping
       /\ \/ ~msg.has_sys_ctrl
          \/ msg.sys_cmd \notin {"SYS_RESET", "SYS_CRITICAL_FLASH_FULL_ERASE",
                                 "SYS_LOG_PERIOD_CHANGE"}

\* C16: a validated system control with a sub-command that is not acted on, a
\* control envelope without payload and any telemetry envelope are no-ops:
\* nothing is sent, nothing halts, and the state of every task is unchanged.
C16_SilentNoOps ==
    [][Silent(gwEnv') =>
          /\ gwLog' = <<>>
          /\ system' = "running"
          /\ UNCHANGED <<queue, pc, cm, cmResets, branch>>
          /\ UNCHANGED <<smVars, flightVars, teleVars, initVars, prodVars>>]_vars

\* a validated SYS_FLASH_LOG_ENABLE was handled without effect
C16_Witness ==
    /\ ValidatedSysCtrl("SYS_FLASH_LOG_ENABLE")
    /\ gwLog = <<>> /\ system = "running"

\* C17: a validated command envelope with a pmb_command of RSC_ANY_TO_ABORT
\* results in exactly one CONTROL_ACTION Command with RSC_ANY_TO_ABORT sent
\* to the Flight task; any other enum, or no pmb_command, results in nothing.
C17_AbortCommandForwarded ==
    gwEnv.cat = "command" =>
        gwLog = IF /\ Validated /\ gwEnv.has_pmb_command
                   /\ gwEnv.command_enum = "RSC_ANY_TO_ABORT"
                THEN << Sent("Flight", Command(CONTROL_ACTION, RSC_ANY_TO_ABORT)) >>
                ELSE <<>>

\* a validated abort command was forwarded to the Flight task
C17_Witness ==
    /\ gwEnv.cat = "command" /\ Validated /\ gwEnv.has_pmb_command
    /\ gwEnv.command_enum = "RSC_ANY_TO_ABORT"
    /\ Len(gwLog) = 1 /\ gwLog[1].to = "Flight"

\* C18: an InitTask that finds rtTaskHandle set halts in the assertion and
\* creates no thread, and a failed xTaskCreate halts too; so no task ever has
\* more than one thread, and a task has its thread exactly when its handle
\* is set.
C18_InitTaskOnce ==
    /\ \A t \in AllTasks :
          /\ threads[t] <= 1
          /\ (threads[t] = 1) <=> (rtTaskHandle[t] # NULL)
    /\ initOp.task # "none" =>
          IF initOp.handle # NULL \/ initOp.rtValue # pdPASS
          THEN /\ system = soar_assert_debug
               /\ rtTaskHandle[initOp.task] = initOp.handle
          ELSE /\ system = "running"
               /\ threads[initOp.task] = 1

\* InitTask was called on a task that had its thread, and the system halted
\* with that one thread
C18_Witness ==
    /\ initOp.task = "Flight" /\ initOp.handle # NULL /\ initOp.rtValue = pdPASS
    /\ system = soar_assert_debug
    /\ threads["Flight"] = 1

\* the number that lies k before nextSeq
SeqBefore(k) == (nextSeq + 2 * SeqModulus - k) % SeqModulus

OneCurrent ==
    /\ bs_currentState \in Slots
    /\ CurID \in BS_IDLE .. (BS_NONE - 1)
    /\ SlotPointer(stateArray, CurID) = bs_currentState

\* C24: after a construction with a valid starting state exactly one state
\* is current, and every HandleCommand and TransitionState call, accepted or
\* rejected, keeps it so.
C24_ExactlyOneCurrent ==
    /\ []((smOp.op = "ctor" /\ smOp.arg \in Slots /\ smPhase = "running") => OneCurrent)
    /\ [][(smPhase = "running" /\ OneCurrent /\ smPhase' = "running") => OneCurrent']_vars

\* a transition to BS_NONE was rejected and one state is still current
C24_Witness ==
    /\ smPhase = "running"
    /\ smOp.op = "TransitionState" /\ smOp.arg = BS_NONE
    /\ OneCurrent

\* C25: the constructor calls OnEnter of the starting state once when
\* enterStartingState is true and not at all when it is false, and calls no
\* OnExit.
C25_ConstructorEntersIfTold ==
    (smOp.op = "ctor" /\ smOp.arg \in Slots /\ smPhase = "running") =>
        /\ CurID = smOp.arg
        /\ hookLog = IF smOp.enter THEN <<Hook("OnEnter", smOp.arg)>> ELSE <<>>

\* a machine was constructed in BS_CHARGING without entering it
C25_Witness ==
    /\ smOp.op = "ctor" /\ smOp.arg = BS_CHARGING /\ ~smOp.enter
    /\ smPhase = "running" /\ hookLog = <<>>

\* C28: every data handler returns the id of its own state, so HandleCommand
\* leaves the current state where it was, runs no OnExit or OnEnter, and does
\* not halt on an unknown kind or sub-command.
C28_HandlersReturnOwnId ==
    smOp.op = "HandleCommand" =>
        /\ smOp.nextState = PreID
        /\ smOp.nextState \in BS_IDLE .. (BS_NONE - 1)
        /\ bs_currentState = smOp.pre
        /\ \A i \in 1 .. Len(hookLog) : hookLog[i].call \notin {"OnExit", "OnEnter"}
        /\ smPhase = "running"

\* C29: FlightTask::HandleCommand answers REQUEST_COMMAND with
\* FT_REQUEST_TRANSMIT_STATE itself, with one system-state control envelope
\* sent through the protocol task of this node and no call on the rocket
\* state machine; any other Command goes to the rocket state machine once
\* and no envelope is sent.
C29_FlightDispatch ==
    branch["Flight"] # "none" =>
        IF cm["Flight"] = Command(REQUEST_COMMAND, FT_REQUEST_TRANSMIT_STATE)
        THEN /\ Len(flightLog) = 1
             /\ flightLog[1].kind = "out" /\ flightLog[1].to = "PMBProtocolTask"
             /\ flightLog[1].env.cat = "control" /\ flightLog[1].env.kind = "sys_state"
        ELSE flightLog = << Call("rsm_", cm["Flight"]) >>

\* the system state the n-th SendRocketState call reports
ReportOfCall(n) ==
    IF n = 1 THEN "SYS_UNCAUGHT_RESET"
    ELSE IF n <= FLIGHT_TASK_BOOTUP_TELE_CYCLES THEN "SYS_BOOTUP_COMPLETE"
    ELSE "SYS_NORMAL_OPERATION"

\* C30: the first SendRocketState call reports SYS_UNCAUGHT_RESET, the calls
\* up to FLIGHT_TASK_BOOTUP_TELE_CYCLES report SYS_BOOTUP_COMPLETE and every
\* later call SYS_NORMAL_OPERATION; firstStateSent_ counts the calls up to
\* FLIGHT_TASK_BOOTUP_TELE_CYCLES, never decreases and grows by at most one.
C30_BootReportSequence ==
    /\ [](/\ branch["Flight"] = "transmit_state" =>
                flightLog[1].env.sys_state = ReportOfCall(stateCalls)
          /\ firstStateSent_ = IF stateCalls < FLIGHT_TASK_BOOTUP_TELE_CYCLES
                               THEN stateCalls ELSE FLIGHT_TASK_BOOTUP_TELE_CYCLES)
    /\ [][/\ firstStateSent_' \in {firstStateSent_, firstStateSent_ + 1}
          /\ firstStateSent_' <= FLIGHT_TASK_BOOTUP_TELE_CYCLES]_vars

\* the call after the boot cycles reported SYS_NORMAL_OPERATION
C30_Witness ==
    /\ branch["Flight"] = "transmit_state"
    /\ stateCalls = FLIGHT_TASK_BOOTUP_TELE_CYCLES + 1
    /\ flightLog[1].env.sys_state = "SYS_NORMAL_OPERATION"
    /\ firstStateSent_ = FLIGHT_TASK_BOOTUP_TELE_CYCLES

\* C21: when InterruptRxData completes a message and SendFromISR fails, it
\* returns with debugMsgIdx = 0 and isDebugMsgReady = false, the queue holds
\* what it held, and the receive interrupt is armed again.
C21_FailedSendAbandons ==
    [][\A debugRxChar \in {CR, 101, 114, 115, 116, 120, 121} :
          (/\ Debug_InterruptRxData(debugRxChar)
           /\ ~isDebugMsgReady
           /\ (debugRxChar = CR \/ debugMsgIdx = DEBUG_RX_BUFFER_SZ_BYTES)
           /\ Len(queue["Debug"]) = TASK_DEBUG_QUEUE_DEPTH_OBJS)
          => (/\ debugMsgIdx' = 0
              /\ ~isDebugMsgReady'
              /\ queue' = queue
              /\ rxOp'.outcome = "failed"
              /\ rxArmed')]_vars

\* a message was completed in a full buffer while the queue was full, and
\* the handler abandoned it
C21_Witness ==
    /\ rxOp.outcome = "failed" /\ rxOp.wrote = DEBUG_RX_BUFFER_SZ_BYTES
    /\ Len(queue["Debug"]) = TASK_DEBUG_QUEUE_DEPTH_OBJS
    /\ debugMsgIdx = 0 /\ ~isDebugMsgReady /\ rxArmed

\* C22: under fair scheduling of the Telemetry task RunLogSequence runs
\* again and again, whatever the other tasks put into its queue.
C22_PeriodicDutyRuns == []<><<Telemetry_RunLogSequence>>_vars

\* the envelopes the handlers of the model handed to a SendProtobufMessage
OutEvents ==
    { flightLog[i] : i \in { k \in 1 .. Len(flightLog) : flightLog[k].kind = "out" } }
    \cup { teleLog[i] : i \in { k \in 1 .. Len(teleLog) : teleLog[k].kind = "out" } }
    \cup { gwLog[i] : i \in { k \in 1 .. Len(gwLog) : gwLog[k].kind = "out" } }

\* C23: every envelope of the Flight task, the Telemetry task and the ping
\* handler goes out through SendProtobufMessage of the protocol task of
\* this node, PMBProtocolTask.
C23_SingleWriter == \A e \in OutEvents : e.to = "PMBProtocolTask"

\* C26: loggingDelayMs is not zero after any TELEMETRY_CHANGE_PERIOD the
\* protocol task forwards, so RunLogSequence never divides by zero.
C26_DivisorNeverZero == loggingDelayMs # 0 /\ system # "faulted"

\* C27: loggingDelayMs is never below TELEMETRY_MINIMUM_LOG_PERIOD_MS.
C27_PeriodAtLeastMinimum == loggingDelayMs >= TELEMETRY_MINIMUM_LOG_PERIOD_MS

\* C31: every envelope handed to a SendProtobufMessage names NODE_PMB as its
\* source and NODE_RCU as its target: the system state of the Flight task,
\* the vent and drain status of the Telemetry task, the acknowledgement of a
\* ping.
C31_OutboundIdentity ==
    \A e \in OutEvents : e.env.source = NODE_PMB /\ e.env.target = NODE_RCU

\* C32: a task receives a command only from the top of its loop, and only
\* when the command it received before has been handled and Reset() has been
\* called on it.
C32_OneCommandInFlight ==
    [][\A t \in DOMAIN queue :
          Len(queue'[t]) < Len(queue[t]) =>
              /\ pc[t] = "receive" /\ pc'[t] = "handle"
              /\ Len(queue'[t]) = Len(queue[t]) - 1
              /\ (cm[t] = NoCommand \/ cmResets[t] >= 1)]_vars

\* the Debug task is handling a command while its queue is full again
C32_Witness ==
    /\ pc["Debug"] = "handle"
    /\ cm["Debug"] # NoCommand
    /\ Len(queue["Debug"]) = TASK_DEBUG_QUEUE_DEPTH_OBJS

\* the receive event the interrupt handler sends
RxEvent == Command(DATA_COMMAND, EVENT_DEBUG_RX_COMPLETE)

\* the bytes of debugBuffer below its terminator while a message is latched
Latched == [k \in 1 .. (debugMsgIdx - 1) |-> debugBuffer[k - 1]]

\* C33: while isDebugMsgReady is true InterruptRxData drops every byte and
\* leaves debugBuffer and debugMsgIdx as they are, no step changes the
\* buffer, and what HandleDebugMessage reads is the bytes the handler took
\* before the carriage return or before the buffer was full, followed by
\* the terminator.
C33_LatchedMessageStable ==
    /\ [](isDebugMsgReady =>
              /\ debugMsgIdx >= 1
              /\ debugBuffer[debugMsgIdx - 1] = NUL
              /\ Latched = rxOp.line
              /\ CString(debugBuffer) = rxOp.line)
    /\ []((pc["Debug"] = "clear" \/ system = "asserted") => debugMsg = rxOp.line)
    /\ [][isDebugMsgReady =>
              /\ debugBuffer' = debugBuffer
              /\ rxOp'.line = rxOp.line
              /\ \A debugRxChar \in {CR, 120} :
                    Debug_InterruptRxData(debugRxChar) =>
                        /\ debugMsgIdx' = debugMsgIdx /\ isDebugMsgReady'
                        /\ queue' = queue /\ rxOp'.outcome = "ignored"]_vars

\* a byte came and was dropped while HandleDebugMessage had read "x" and had
\* not yet cleared the buffer
C33_Witness ==
    /\ isDebugMsgReady /\ pc["Debug"] = "clear"
    /\ rxOp.outcome = "ignored"
    /\ debugMsg = <<120>> /\ rxOp.line = <<120>>

\* the receive events in the queue of the Debug task
RxPending == { i \in 1 .. Len(queue["Debug"]) : queue["Debug"][i] = RxEvent }

\* the Debug task has received the receive event and not yet cleared the
\* buffer
RxInHand == cm["Debug"] = RxEvent /\ pc["Debug"] \in {"handle", "clear"}

\* C34: while isDebugMsgReady is true one receive event is in the queue of
\* the Debug task or in the hands of its handler, never two, and under fair
\* scheduling the flag becomes false with debugMsgIdx = 0, unless the
\* message was sysreset, at which the system stops.
C34_LatchIsServed ==
    /\ [](/\ Cardinality(RxPending) + (IF RxInHand THEN 1 ELSE 0)
                = (IF isDebugMsgReady THEN 1 ELSE 0))
    /\ (isDebugMsgReady ~>
            ((~isDebugMsgReady /\ debugMsgIdx = 0) \/ system = "asserted"))

\* a message is latched and its event is the last of a full queue
C34_Witness ==
    /\ isDebugMsgReady
    /\ Len(queue["Debug"]) = TASK_DEBUG_QUEUE_DEPTH_OBJS
    /\ queue["Debug"][TASK_DEBUG_QUEUE_DEPTH_OBJS] = RxEvent
    /\ pc["Debug"] = "handle"

\* C35: InterruptRxData writes at no index above DEBUG_RX_BUFFER_SZ_BYTES, a
\* byte of the message is stored below that index only, since the message is
\* completed when debugMsgIdx has reached it, and debugMsgIdx is at most
\* DEBUG_RX_BUFFER_SZ_BYTES + 1, which it is only while a message is latched.
C35_IndexWithinBuffer ==
    /\ rxOp.wrote <= DEBUG_RX_BUFFER_SZ_BYTES
    /\ rxOp.outcome = "stored" => rxOp.wrote < DEBUG_RX_BUFFER_SZ_BYTES
    /\ debugMsgIdx >= 0 /\ debugMsgIdx <= DEBUG_RX_BUFFER_SZ_BYTES + 1
    /\ debugMsgIdx = DEBUG_RX_BUFFER_SZ_BYTES + 1 => isDebugMsgReady
    /\ Len(rxOp.line) <= DEBUG_RX_BUFFER_SZ_BYTES

\* the terminator was written at the last index of a full buffer
C35_Witness ==
    /\ rxOp.outcome = "sent" /\ rxOp.wrote = DEBUG_RX_BUFFER_SZ_BYTES
    /\ debugMsgIdx = DEBUG_RX_BUFFER_SZ_BYTES + 1 /\ isDebugMsgReady
    /\ Len(rxOp.line) = DEBUG_RX_BUFFER_SZ_BYTES

\* the command RunLogSequence sends to the Watchdog task
Heartbeat == Sent("Watchdog", Command(TASK_SPECIFIC_COMMAND, HB_STATUS_SEND))

\* the last RunLogSequence sent the heartbeat command
HeartbeatSent(log) == \E i \in 1 .. Len(log) : log[i] = Heartbeat

\* C36: a log cycle that sends HB_STATUS_SEND sets numNonControlLogs_ to 0
\* and comes at least TELEMETRY_HEARTBEAT_TIMER_PERIOD_MS of osDelay time
\* after the cycle that sent the one before; a cycle that does not send it
\* leaves numNonControlLogs_ below
\* TELEMETRY_HEARTBEAT_TIMER_PERIOD_MS / loggingDelayMs.
C36_HeartbeatRateLimited ==
    [][(pc["Telemetry"] = "delay" /\ pc'["Telemetry"] = "receive" /\ loggingDelayMs # 0) =>
          IF HeartbeatSent(teleLog')
          THEN /\ numNonControlLogs_' = 0
               /\ sinceHeartbeat # NULL =>
                      sinceHeartbeat + loggingDelayMs >= TELEMETRY_HEARTBEAT_TIMER_PERIOD_MS
          ELSE numNonControlLogs_' < TELEMETRY_HEARTBEAT_TIMER_PERIOD_MS \div loggingDelayMs]_vars

\* the place of an entry of teleLog in the order of a log cycle: the request
\* to the Flight task, the heartbeat command, the vent and drain envelope,
\* the sample requests, the transmit requests
Rank(e) ==
    IF e.kind = "out" THEN 3
    ELSE IF e.to = "Flight" THEN 1
    ELSE IF e.to = "Watchdog" THEN 2
    ELSE IF e.c.tc \in {BATTERY_REQUEST_NEW_SAMPLE, BARO_REQUEST_NEW_SAMPLE,
                        IMU_REQUEST_NEW_SAMPLE} THEN 4
    ELSE 5

\* the entries of teleLog of one rank
Ranked(r) == { i \in 1 .. Len(teleLog) : Rank(teleLog[i]) = r }

\* C37: what a RunLogSequence sends is in this order: the transmit request to
\* the Flight task first, then the vent and drain envelope, then a sample
\* request to each sensor task, then a transmit request to each sensor task;
\* a sensor task that gets both gets its sample request first.
C37_LogSequenceOrder ==
    teleLog # <<>> =>
        /\ teleLog[1] = Sent("Flight", Command(REQUEST_COMMAND, FT_REQUEST_TRANSMIT_STATE))
        /\ Cardinality(Ranked(1)) = 1
        /\ \A i, j \in 1 .. Len(teleLog) : i < j => Rank(teleLog[i]) <= Rank(teleLog[j])
        /\ system # "faulted" =>
              /\ Cardinality(Ranked(3)) = 1
              /\ { teleLog[i].to : i \in Ranked(4) } = {"Battery", "Barometer", "IMU"}
              /\ { teleLog[i].to : i \in Ranked(5) } = {"Battery", "Barometer", "IMU", "GPS"}
              /\ Cardinality(Ranked(4)) = 3 /\ Cardinality(Ranked(5)) = 4
              /\ \A i \in Ranked(4), j \in Ranked(5) :
                    teleLog[i].to = teleLog[j].to => i < j

\* a log cycle that sent the heartbeat command as well
C37_Witness ==
    /\ system = "running" /\ Len(teleLog) = 10
    /\ Ranked(2) # {} /\ Ranked(4) # {} /\ Ranked(5) # {}

\* C38: a receive of the Telemetry task takes one command and does not
\* block; the task goes on to its delay only from a receive that found the
\* queue empty, with every command it received handled and reset, so that
\* the delay of the cycle is the period of the TELEMETRY_CHANGE_PERIOD it
\* handled last in this cycle.
C38_DrainBeforeDelay ==
    /\ [][(pc["Telemetry"] # "delay" /\ pc'["Telemetry"] = "delay") =>
              /\ pc["Telemetry"] = "receive"
              /\ queue["Telemetry"] = <<>> /\ queue'["Telemetry"] = <<>>
              /\ cm["Telemetry"] = NoCommand \/ cmResets["Telemetry"] = 1]_vars
    /\ [][(pc["Telemetry"] = "receive" /\ queue["Telemetry"] # <<>>
           /\ pc'["Telemetry"] # "receive") =>
              /\ pc'["Telemetry"] = "handle"
              /\ cm'["Telemetry"] = Head(queue["Telemetry"])
              /\ queue'["Telemetry"] = Tail(queue["Telemetry"])]_vars
    /\ []((pc["Telemetry"] = "delay" /\ cm["Telemetry"].cmd = TELEMETRY_CHANGE_PERIOD)
              => loggingDelayMs = cm["Telemetry"].tc)
    /\ [][pc["Telemetry"] = "delay" => loggingDelayMs' = loggingDelayMs]_vars

\* in a cycle after the first the task handled a change of the period to
\* 1000 and found the queue empty: its delay is 1000
C38_Witness ==
    /\ pc["Telemetry"] = "delay" /\ teleLog # <<>>
    /\ cm["Telemetry"] = Command(TELEMETRY_CHANGE_PERIOD, 1000)
    /\ loggingDelayMs = 1000 /\ queue["Telemetry"] # <<>>

\* C39: FlightTask::Run constructs the rocket state machine once, before its
\* first receive, whether the read of the persisted state succeeds or fails:
\* rsm_ is null only before that, and holds a machine in a valid state
\* whenever HandleCommand or SendRocketState runs.
C39_MachineBeforeCommands ==
    /\ []((pc["Flight"] = "start") <=> (rsm_ = NULL))
    /\ [](pc["Flight"] \in {"receive", "handle"} =>
              (rsm_ >= RS_PRELAUNCH /\ rsm_ < RS_NONE))
    /\ [][pc["Flight"] # "start" =>
              (pc'["Flight"] # "start" /\ flightStart' = flightStart)]_vars
    /\ [][(pc["Flight"] = "start" /\ pc'["Flight"] # "start") =>
              (pc'["Flight"] = "receive" /\ cm["Flight"] = NoCommand
               /\ queue' = queue /\ rsm_' = flightStart'.startingState)]_vars

\* the read of the persisted state failed and the task is handling a command
\* for the machine, with another one waiting
C39_Witness ==
    /\ pc["Flight"] = "handle" /\ ~flightStart.readOK
    /\ rsm_ = RS_ABORT /\ cm["Flight"] = Command(CONTROL_ACTION, RSC_ANY_TO_ABORT)
    /\ queue["Flight"] # <<>>

====
